---- MODULE Spec2Model ----
(***************************************************************************)
(* jesenrpc: JSON-RPC 2.0 entities over the jesen tree library.            *)
(*                                                                         *)
(* The heap holds every allocation (tree nodes, entity structs, string     *)
(* buffers, item arrays).  An object is "live" from its allocation to its  *)
(* first release; rel counts releases, so rel = 2 is a double release.     *)
(* Pointers are heap indices, 0 is NULL.                                   *)
(*                                                                         *)
(* 64-bit integers and doubles exceed 32-bit integer arithmetic, so a      *)
(* magnitude is a sequence of bits, most significant first, without        *)
(* leading zeros (<<>> is 0).  A double is sign, integer magnitude and a   *)
(* decimal fraction (digits after the point, no trailing zeros); the       *)
(* 53-bit significand is applied to the integer magnitude.                 *)
(***************************************************************************)
EXTENDS Integers, Sequences, FiniteSets, TLC

\* ------------------------------------------------------------------------
\* Program constants
\* ------------------------------------------------------------------------
JESENRPC_METHOD_NAME_MAX_LEN == 256
JESENRPC_JSONRPC_VERSION_LEN == 3
JESENRPC_JSONRPC_VERSION == [len |-> 3, txt |-> "2.0"]
IdFirstBuf == 64
IdMaxAttempt == 8192
ErrMessageLimit == 4096
DBL_MANT_DIG == 53
Int64Bits == 63
Int32Bits == 31

\* ------------------------------------------------------------------------
\* Magnitudes as bit sequences
\* ------------------------------------------------------------------------
\* Let([x \in {e} |-> body]) is body with x standing for the value of e
Let(f) == f[CHOOSE b \in DOMAIN f : TRUE]

Zeros(k) == [i \in 1..k |-> 0]

Ones(k) == [i \in 1..k |-> 1]

Pow2(k) == <<1>> \o Zeros(k)

RECURSIVE NatBits(_)
NatBits(n) == IF n = 0 THEN <<>> ELSE NatBits(n \div 2) \o <<n % 2>>

\* a < b, lexicographically on equal lengths
SeqLT(a, b) ==
  \E i \in 1..Len(a) : a[i] < b[i] /\ \A j \in 1..(i - 1) : a[j] = b[j]

BitsLT(a, b) == Len(a) < Len(b) \/ (Len(a) = Len(b) /\ SeqLT(a, b))

BitsInc(a) ==
  IF \A i \in 1..Len(a) : a[i] = 1
  THEN Pow2(Len(a))
  ELSE Let([z \in {CHOOSE i \in 1..Len(a) :
                  a[i] = 0 /\ \A j \in (i + 1)..Len(a) : a[j] = 1} |->
          [i \in 1..Len(a) |-> IF i < z THEN a[i] ELSE IF i = z THEN 1 ELSE 0]])

Strip(a) ==
  IF \A i \in 1..Len(a) : a[i] = 0
  THEN <<>>
  ELSE Let([f \in {CHOOSE i \in 1..Len(a) : a[i] = 1 /\ \A j \in 1..(i - 1) : a[j] = 0} |->
          SubSeq(a, f, Len(a))])

PadTo(a, n) == Zeros(n - Len(a)) \o a

Max(x, y) == IF x > y THEN x ELSE y

\* a + b: the carry into bit i comes from a lower bit where both are 1, through
\* bits where one is 1
BitsAdd(a, b) ==
  Let([n \in {Max(Len(a), Len(b))} |->
      Let([x \in {PadTo(a, n)} |->
      Let([y \in {PadTo(b, n)} |->
      Let([carry \in {[i \in 0..n |->
                  IF \E j \in (i + 1)..n :
                       /\ x[j] + y[j] = 2
                       /\ \A k \in (i + 1)..(j - 1) : x[k] + y[k] >= 1
                  THEN 1 ELSE 0]} |->
     Strip(<<carry[0]>> \o [i \in 1..n |-> (x[i] + y[i] + carry[i]) % 2])])])])])

\* a - b for a >= b: the borrow into bit i comes from a lower bit where a has 0
\* and b has 1, through bits where a does not exceed b
BitsSub(a, b) ==
  Let([n \in {Max(Len(a), Len(b))} |->
      Let([x \in {PadTo(a, n)} |->
      Let([y \in {PadTo(b, n)} |->
      Let([borrow \in {[i \in 1..n |->
                   IF \E j \in (i + 1)..n :
                        /\ x[j] < y[j]
                        /\ \A k \in (i + 1)..(j - 1) : x[k] <= y[k]
                   THEN 1 ELSE 0]} |->
     Strip([i \in 1..n |-> (x[i] - y[i] - borrow[i] + 2) % 2])])])])])

\* ------------------------------------------------------------------------
\* int64_t, int32_t and double
\* ------------------------------------------------------------------------
\* int64_t: [neg, mag] with mag < 2^63, or neg and mag = 2^63
I64(neg, mag) == [neg |-> neg /\ mag # <<>>, mag |-> mag]

I64Zero == I64(FALSE, <<>>)

INT64_MAX == I64(FALSE, Ones(Int64Bits))

INT64_MIN == I64(TRUE, Pow2(Int64Bits))

INT32_MAX == I64(FALSE, Ones(Int32Bits))

INT32_MIN == I64(TRUE, Pow2(Int32Bits))

\* double: [neg, mag, frac]
Dbl(neg, mag, frac) == [neg |-> neg, mag |-> mag, frac |-> frac]

DblIsZero(x) == x.mag = <<>> /\ x.frac = <<>>

\* magnitude comparison of two doubles
FracLT(f, g) ==
  Let([n \in {Max(Len(f), Len(g))} |->
     SeqLT(f \o Zeros(n - Len(f)), g \o Zeros(n - Len(g)))])

MagLT(x, y) == BitsLT(x.mag, y.mag) \/ (x.mag = y.mag /\ FracLT(x.frac, y.frac))

\* x < y on doubles
DblLT(x, y) ==
  Let([xn \in {x.neg /\ ~DblIsZero(x)} |->
      Let([yn \in {y.neg /\ ~DblIsZero(y)} |->
     IF xn /\ ~yn THEN TRUE
     ELSE IF ~xn /\ yn THEN FALSE
     ELSE IF xn THEN MagLT(y, x)
     ELSE MagLT(x, y)])])

\* x <= y on int64
I64LE(x, y) ==
  ~DblLT(Dbl(y.neg, y.mag, <<>>), Dbl(x.neg, x.mag, <<>>))

\* round an integer magnitude to a 53-bit significand, ties to even
RoundMag(mag) ==
  IF Len(mag) <= DBL_MANT_DIG
  THEN mag
  ELSE Let([head \in {SubSeq(mag, 1, DBL_MANT_DIG)} |->
           Let([rest \in {SubSeq(mag, DBL_MANT_DIG + 1, Len(mag))} |->
           Let([sticky \in {\E i \in 2..Len(rest) : rest[i] = 1} |->
           Let([up \in {rest[1] = 1 /\ (sticky \/ head[DBL_MANT_DIG] = 1)} |->
          (IF up THEN BitsInc(head) ELSE head) \o Zeros(Len(rest))])])])])

\* (double)num
I64ToDouble(num) == Dbl(num.neg, RoundMag(num.mag), <<>>)

\* 1 - 0.f for a non-empty fraction f
FracComplement(f) ==
  [i \in 1..Len(f) |-> IF i = Len(f) THEN 10 - f[i] ELSE 9 - f[i]]

\* a - b where a is integer valued
DblSub(a, b) ==
  IF a.neg # b.neg /\ ~DblIsZero(a) /\ ~DblIsZero(b)
  THEN Dbl(a.neg, BitsAdd(a.mag, b.mag), b.frac)
  ELSE IF DblIsZero(a) THEN Dbl(~b.neg, b.mag, b.frac)
  ELSE IF DblIsZero(b) THEN a
  ELSE IF a.mag = b.mag THEN Dbl(~a.neg, <<>>, b.frac)
  ELSE IF BitsLT(a.mag, b.mag) THEN Dbl(~a.neg, BitsSub(b.mag, a.mag), b.frac)
  ELSE IF b.frac = <<>> THEN Dbl(a.neg, BitsSub(a.mag, b.mag), <<>>)
  ELSE Dbl(a.neg, BitsSub(BitsSub(a.mag, b.mag), <<1>>), FracComplement(b.frac))

\* the value fits int64_t after truncation toward zero
FitsInt64(val) ==
  BitsLT(val.mag, Pow2(Int64Bits)) \/ (val.neg /\ val.mag = Pow2(Int64Bits))

\* (int64_t)val; out of range the conversion is undefined: x86-64 yields
\* INT64_MIN, AArch64 saturates.  ub selects the build.
DoubleToI64(val, ub) ==
  IF FitsInt64(val) THEN I64(val.neg, val.mag)
  ELSE IF ub = "x86" THEN INT64_MIN
  ELSE IF val.neg THEN INT64_MIN ELSE INT64_MAX

UBChoices == {"x86", "arm"}

Tolerance == Dbl(FALSE, <<>>, <<0, 0, 0, 0, 0, 0, 0, 0, 0, 1>>)

NegTolerance == Dbl(TRUE, <<>>, <<0, 0, 0, 0, 0, 0, 0, 0, 0, 1>>)

\* comparison without a tolerance
jrpc_doubles_equal_exact(a, b) == DblIsZero(DblSub(a, b))

jrpc_doubles_equal(a, b) ==
  Let([diff \in {DblSub(a, b)} |->
     DblLT(diff, Tolerance) /\ DblLT(NegTolerance, diff)])

\* ------------------------------------------------------------------------
\* Error codes
\* ------------------------------------------------------------------------
JESENRPC_ERR_NONE == "NONE"
JESENRPC_ERR_INVALID_ARGS == "JESENRPC_INVALID_ARGS"
JESENRPC_ERR_VALIDATION == "JESENRPC_VALIDATION"
JESENRPC_ERR_ALLOC == "JESENRPC_ALLOC"
JESEN_ERR_NONE == "NONE"
JESEN_ERR_INVALID_ARGS == "JESEN_INVALID_ARGS"
JESEN_ERR_INVALID_VALUE_TYPE == "JESEN_INVALID_VALUE_TYPE"
JESEN_ERR_NOT_FOUND == "JESEN_NOT_FOUND"
JESEN_ERR_FAILED == "JESEN_FAILED"
JESEN_ERR_NO_SPACE == "JESEN_NO_SPACE"
JESEN_ERR_PARSE == "JESEN_PARSE"

\* ------------------------------------------------------------------------
\* Heap
\* ------------------------------------------------------------------------
NULL == 0

Str(len, txt) == [len |-> len, txt |-> txt]

NoStr == Str(0, "")

DblZero == Dbl(FALSE, <<>>, <<>>)

Obj(k, t, s, n, parent, key, pos) ==
  [k |-> k, st |-> "live", rel |-> 0, t |-> t, s |-> s, n |-> n,
   parent |-> parent, key |-> key, pos |-> pos]

Node(t, s, n, parent, key, pos) == Obj("node", t, s, n, parent, key, pos)

Struct(what) == Obj("struct", what, NoStr, DblZero, NULL, "", 0)

Buffer(s) == Obj("buf", "", s, DblZero, NULL, "", 0)

\* The machine: the heap and the number of fallible calls (allocations and
\* tree-library calls) that still succeed before one fails; -1 is never.
\* linked: an assign that fails has made the node a child before it fails
\* (the partially-assigned node of a failed build).
Machine(h, ff) == [h |-> h, ff |-> ff, linked |-> FALSE]

Fires(m) == m.ff = 0

\* the counter once the failing call was a detach
DetachFailed == 0 - 2

\* the counter once the failing call was an assign that left the node linked
AssignLinked == 0 - 3

After(m) == [m EXCEPT !.ff = IF @ >= 0 THEN @ - 1 ELSE @]

calloc(m, obj) ==
  IF Fires(m)
  THEN [p |-> NULL, m |-> After(m)]
  ELSE [p |-> Len(m.h) + 1, m |-> [After(m) EXCEPT !.h = Append(@, obj)]]

Release(h, S) ==
  [i \in 1..Len(h) |->
     IF i \in S THEN [h[i] EXCEPT !.st = "released", !.rel = @ + 1] ELSE h[i]]

free(m, p) == [m EXCEPT !.h = Release(@, {p} \ {NULL})]

Live(h, p) == p # NULL /\ h[p].st = "live"

\* ------------------------------------------------------------------------
\* The tree library (jesen): nodes are heap objects linked by parent
\* ------------------------------------------------------------------------
Children(h, p) == {i \in 1..Len(h) : h[i].k = "node" /\ h[i].parent = p}

RECURSIVE Subtree(_, _)
Subtree(h, S) ==
  Let([T \in {S \cup {i \in 1..Len(h) : h[i].k = "node" /\ h[i].parent \in S}} |->
     IF T = S THEN S ELSE Subtree(h, T)])

\* releases the node and everything below it
jesen_destroy(m, p) ==
  IF p = NULL THEN m ELSE [m EXCEPT !.h = Release(@, Subtree(@, {p}))]

NextPos(h, p) ==
  Let([ps \in {{h[i].pos : i \in Children(h, p)}} |->
     IF ps = {} THEN 1 ELSE 1 + CHOOSE x \in ps : \A y \in ps : y <= x])

jesen_object_create(m) ==
  Let([a \in {calloc(m, Node("object", NoStr, DblZero, NULL, "", 0))} |->
     [err |-> IF a.p = NULL THEN JESEN_ERR_FAILED ELSE JESEN_ERR_NONE,
      p |-> a.p, m |-> a.m]])

jesen_array_create(m) ==
  Let([a \in {calloc(m, Node("array", NoStr, DblZero, NULL, "", 0))} |->
     [err |-> IF a.p = NULL THEN JESEN_ERR_FAILED ELSE JESEN_ERR_NONE,
      p |-> a.p, m |-> a.m]])

AddChild(m, object, key, t, s, n) ==
  Let([a \in {calloc(m, Node(t, s, n, object, key, NextPos(m.h, object)))} |->
     [err |-> IF a.p = NULL THEN JESEN_ERR_FAILED ELSE JESEN_ERR_NONE, m |-> a.m]])

jesen_object_add_string(m, object, key, s) ==
  AddChild(m, object, key, "string", s, DblZero)

jesen_object_add_null(m, object, key) ==
  AddChild(m, object, key, "null", NoStr, DblZero)

jesen_object_add_int32(m, object, key, v) ==
  AddChild(m, object, key, "number", NoStr, Dbl(v.neg, v.mag, <<>>))

jesen_object_add_double(m, object, key, d) ==
  AddChild(m, object, key, "number", NoStr, d)

\* the node becomes a child of parent (by key, or appended to an array)
jesen_node_assign_to(m, parent, key, node) ==
  IF Fires(m)
  THEN [err |-> JESEN_ERR_FAILED,
        m |-> IF m.linked
              THEN [m EXCEPT !.ff = AssignLinked, !.h[node].parent = parent,
                             !.h[node].key = key, !.h[node].pos = NextPos(m.h, parent)]
              ELSE After(m)]
  ELSE [err |-> JESEN_ERR_NONE,
        m |-> [After(m) EXCEPT !.h[node].parent = parent, !.h[node].key = key,
                               !.h[node].pos = NextPos(m.h, parent)]]

\* the node leaves its parent and is not destroyed
jesen_node_detach(m, node) ==
  IF Fires(m)
  THEN [err |-> JESEN_ERR_FAILED, m |-> [m EXCEPT !.ff = DetachFailed]]
  ELSE [err |-> JESEN_ERR_NONE,
        m |-> [After(m) EXCEPT !.h[node].parent = NULL, !.h[node].key = "",
                               !.h[node].pos = 0]]

jesen_node_find(h, object, key) ==
  Let([c \in {{i \in Children(h, object) : h[i].key = key}} |->
     IF c = {}
     THEN [err |-> JESEN_ERR_NOT_FOUND, p |-> NULL]
     ELSE [err |-> JESEN_ERR_NONE, p |-> CHOOSE i \in c : \A j \in c : i <= j]])

jesen_value_is_object(h, p) == h[p].t = "object"

jesen_value_is_array(h, p) == h[p].t = "array"

jesen_value_is_string(h, p) == h[p].t = "string"

jesen_value_is_null(h, p) == h[p].t = "null"

jesen_value_is_double(h, p) == h[p].t = "number"

\* the string is copied with its terminator: it needs len + 1 bytes
jesen_value_get_string(h, p, buf_len) ==
  IF h[p].t # "string"
  THEN [err |-> JESEN_ERR_INVALID_VALUE_TYPE, s |-> NoStr]
  ELSE IF h[p].s.len >= buf_len
  THEN [err |-> JESEN_ERR_INVALID_ARGS, s |-> NoStr]
  ELSE [err |-> JESEN_ERR_NONE, s |-> h[p].s]

jesen_object_get_string(h, object, key, buf_len) ==
  Let([f \in {jesen_node_find(h, object, key)} |->
     IF f.err # JESEN_ERR_NONE
     THEN [err |-> f.err, s |-> NoStr]
     ELSE jesen_value_get_string(h, f.p, buf_len)])

\* the number as the nearest double
jesen_value_get_double(h, p) ==
  IF h[p].t # "number"
  THEN [err |-> JESEN_ERR_INVALID_VALUE_TYPE, d |-> DblZero]
  ELSE [err |-> JESEN_ERR_NONE,
        d |-> Dbl(h[p].n.neg, RoundMag(h[p].n.mag), h[p].n.frac)]

\* an integer in the int32_t range
jesen_object_get_int32(h, object, key) ==
  Let([f \in {jesen_node_find(h, object, key)} |->
     IF f.err # JESEN_ERR_NONE
     THEN [err |-> f.err, v |-> I64Zero]
     ELSE IF h[f.p].t # "number" \/ h[f.p].n.frac # <<>>
             \/ ~I64LE(INT32_MIN, h[f.p].n) \/ ~I64LE(h[f.p].n, INT32_MAX)
     THEN [err |-> JESEN_ERR_INVALID_VALUE_TYPE, v |-> I64Zero]
     ELSE [err |-> JESEN_ERR_NONE, v |-> I64(h[f.p].n.neg, h[f.p].n.mag)]])

jesen_array_size(h, p) == Cardinality(Children(h, p))

\* the i-th element (from 0), in position order
RECURSIVE InOrder(_, _)
InOrder(h, S) ==
  IF S = {}
  THEN <<>>
  ELSE Let([f \in {CHOOSE i \in S :
                  \A j \in S : h[i].pos < h[j].pos \/ (h[i].pos = h[j].pos /\ i <= j)} |->
          <<f>> \o InOrder(h, S \ {f})])

jesen_array_get_value(h, p, i) ==
  Let([e \in {InOrder(h, Children(h, p))} |->
     IF i < Len(e)
     THEN [err |-> JESEN_ERR_NONE, p |-> e[i + 1]]
     ELSE [err |-> JESEN_ERR_INVALID_ARGS, p |-> NULL]])

\* ------------------------------------------------------------------------
\* Text: a JSON value [t, s, n, kids], kids a sequence of <<key, value>>
\* ------------------------------------------------------------------------
Val(t, s, n, kids) == [t |-> t, s |-> s, n |-> n, kids |-> kids]

VStr(s) == Val("string", s, DblZero, <<>>)

VNum(d) == Val("number", NoStr, d, <<>>)

VInt(neg, mag) == VNum(Dbl(neg, mag, <<>>))

VNull == Val("null", NoStr, DblZero, <<>>)

VBool == Val("bool", NoStr, DblZero, <<>>)

VObj(kids) == Val("object", NoStr, DblZero, kids)

VArr(elems) == Val("array", NoStr, DblZero, [i \in 1..Len(elems) |-> <<"", elems[i]>>])

VBad == Val("bad", NoStr, DblZero, <<>>)

NoText == Val("none", NoStr, DblZero, <<>>)

RECURSIVE ToValue(_, _)
ToValue(h, p) ==
  Let([c \in {InOrder(h, Children(h, p))} |->
     Val(h[p].t, h[p].s, h[p].n, [i \in 1..Len(c) |-> <<h[c[i]].key, ToValue(h, c[i])>>])])

KeyLen(key) ==
  CASE key = "" -> 0
    [] key = "id" -> 5
    [] key \in {"code", "data"} -> 7
    [] key \in {"method", "params", "result"} -> 9
    [] key = "error" -> 8
    [] OTHER -> 10

RECURSIVE TextLen(_)
RECURSIVE KidsLen(_, _)
TextLen(v) ==
  CASE v.t = "string" -> v.s.len + 2
    [] v.t = "number" -> 1 + Len(v.n.mag) + Len(v.n.frac)
    [] v.t = "null" -> 4
    [] v.t = "bool" -> 5
    [] OTHER -> 2 + KidsLen(v.kids, 1)

KidsLen(kids, i) ==
  IF i > Len(kids) THEN 0
  ELSE KeyLen(kids[i][1]) + TextLen(kids[i][2]) + 1 + KidsLen(kids, i + 1)

\* the text of the tree, when it fits the buffer with its terminator
jesen_serialize(m, node, out_buf_len) ==
  Let([v \in {ToValue(m.h, node)} |->
     IF Fires(m)
     THEN [err |-> JESEN_ERR_FAILED, text |-> NoText, m |-> After(m)]
     ELSE IF TextLen(v) >= out_buf_len
     THEN [err |-> JESEN_ERR_NO_SPACE, text |-> NoText, m |-> After(m)]
     ELSE [err |-> JESEN_ERR_NONE, text |-> v, m |-> After(m)]])

RECURSIVE Load(_, _, _, _, _)
RECURSIVE LoadKids(_, _, _, _)
Load(h, v, parent, key, pos) ==
  Let([h1 \in {Append(h, Node(v.t, v.s, v.n, parent, key, pos))} |->
     LoadKids(h1, v.kids, Len(h1), 1)])

LoadKids(h, kids, p, i) ==
  IF i > Len(kids) THEN h
  ELSE LoadKids(Load(h, kids[i][2], p, kids[i][1], i), kids, p, i + 1)

\* the tree of a text
jesen_parse(m, text) ==
  IF Fires(m)
  THEN [err |-> JESEN_ERR_FAILED, p |-> NULL, m |-> After(m)]
  ELSE IF text.t \in {"bad", "none"}
  THEN [err |-> JESEN_ERR_PARSE, p |-> NULL, m |-> After(m)]
  ELSE [err |-> JESEN_ERR_NONE, p |-> Len(m.h) + 1,
        m |-> [After(m) EXCEPT !.h = Load(@, text, NULL, "", 0)]]

\* ------------------------------------------------------------------------
\* Identifiers
\* ------------------------------------------------------------------------
JESENRPC_ID_NONE == "ID_NONE"
JESENRPC_ID_NUMBER == "ID_NUMBER"
JESENRPC_ID_STRING == "ID_STRING"
JESENRPC_ID_NULL == "ID_NULL"

\* jesenrpc_id_t; data points to a heap buffer
Id(kind, number, data, len) ==
  [kind |-> kind, number |-> number, data |-> data, len |-> len]

IdZero == Id(JESENRPC_ID_NONE, I64Zero, NULL, 0)

\* a caller's string that is a null pointer
NullStr == Str(0, "(null)")

jrpc_strdup(m, src, len) ==
  IF src = NullStr
  THEN [err |-> JESENRPC_ERR_INVALID_ARGS, p |-> NULL, m |-> m]
  ELSE Let([a \in {calloc(m, Buffer(Str(len, src.txt)))} |->
          IF a.p = NULL
          THEN [err |-> JESENRPC_ERR_ALLOC, p |-> NULL, m |-> a.m]
          ELSE [err |-> JESENRPC_ERR_NONE, p |-> a.p, m |-> a.m]])

jrpc_id_cleanup(m, id) ==
  [m |-> IF id.kind = JESENRPC_ID_STRING /\ id.data # NULL THEN free(m, id.data) ELSE m,
   id |-> IdZero]

jrpc_id_clone(m, src, dst) ==
  Let([c \in {jrpc_id_cleanup(m, dst)} |->
     IF src.kind = JESENRPC_ID_STRING /\ src.data # NULL
     THEN Let([d \in {jrpc_strdup(c.m, c.m.h[src.data].s, src.len)} |->
             [err |-> d.err, m |-> d.m,
              id |-> IF d.err = JESENRPC_ERR_NONE THEN [src EXCEPT !.data = d.p] ELSE src]])
     ELSE [err |-> JESENRPC_ERR_NONE, m |-> c.m, id |-> src]])

jesenrpc_id_set_number(m, id, value) ==
  Let([c \in {jrpc_id_cleanup(m, id)} |->
     [err |-> JESENRPC_ERR_NONE, m |-> c.m,
      id |-> Id(JESENRPC_ID_NUMBER, value, NULL, 0)]])

jesenrpc_id_set_string(m, id, value, value_len) ==
  IF value = NullStr
  THEN [err |-> JESENRPC_ERR_INVALID_ARGS, m |-> m, id |-> id]
  ELSE Let([c \in {jrpc_id_cleanup(m, id)} |->
           Let([d \in {jrpc_strdup(c.m, value, value_len)} |->
          [err |-> d.err, m |-> d.m,
           id |-> Id(JESENRPC_ID_STRING, I64Zero, d.p, value_len)]])])

jesenrpc_id_set_null(m, id) ==
  Let([c \in {jrpc_id_cleanup(m, id)} |->
     [err |-> JESENRPC_ERR_NONE, m |-> c.m, id |-> Id(JESENRPC_ID_NULL, I64Zero, NULL, 0)]])

jesenrpc_id_set_notification(m, id) ==
  Let([c \in {jrpc_id_cleanup(m, id)} |->
     [err |-> JESENRPC_ERR_NONE, m |-> c.m, id |-> Id(JESENRPC_ID_NONE, I64Zero, NULL, 0)]])

jesenrpc_id_destroy(m, id) ==
  Let([c \in {jrpc_id_cleanup(m, id)} |->
     [err |-> JESENRPC_ERR_NONE, m |-> c.m, id |-> c.id]])

\* ------------------------------------------------------------------------
\* Requests
\* ------------------------------------------------------------------------
\* jesenrpc_request_t; self is the struct's allocation
Request(self, jsonrpc, id, method_name, params) ==
  [self |-> self, jsonrpc |-> jsonrpc, id |-> id, method_name |-> method_name,
   params |-> params]

NoRequest == Request(NULL, NoStr, IdZero, NULL, NULL)

Min(a, b) == IF a < b THEN a ELSE b

jesenrpc_request_create(m, method_name) ==
  IF method_name = NullStr
  THEN [err |-> JESENRPC_ERR_INVALID_ARGS, m |-> m, req |-> NoRequest]
  ELSE Let([len \in {Min(method_name.len, JESENRPC_METHOD_NAME_MAX_LEN + 1)} |->
          IF len = 0 \/ len > JESENRPC_METHOD_NAME_MAX_LEN
          THEN [err |-> JESENRPC_ERR_INVALID_ARGS, m |-> m, req |-> NoRequest]
          ELSE Let([a \in {calloc(m, Struct("request"))} |->
                  IF a.p = NULL
                  THEN [err |-> JESENRPC_ERR_ALLOC, m |-> a.m, req |-> NoRequest]
                  ELSE Let([d \in {jrpc_strdup(a.m, method_name, len)} |->
                          IF d.err # JESENRPC_ERR_NONE
                          THEN [err |-> d.err, m |-> free(d.m, a.p), req |-> NoRequest]
                          ELSE [err |-> JESENRPC_ERR_NONE, m |-> d.m,
                                req |-> Request(a.p, JESENRPC_JSONRPC_VERSION,
                                                IdZero, d.p, NULL)]])])])

jesenrpc_request_set_id(m, request, id) ==
  IF request.self = NULL
  THEN [err |-> JESENRPC_ERR_INVALID_ARGS, m |-> m, req |-> request]
  ELSE Let([c \in {jrpc_id_clone(m, id, request.id)} |->
          [err |-> c.err, m |-> c.m, req |-> [request EXCEPT !.id = c.id]]])

\* set_params that releases the previous params before it looks at the node
jesenrpc_request_set_params_releases_first(m, request, params) ==
  IF request.self = NULL
  THEN [err |-> JESENRPC_ERR_INVALID_ARGS, m |-> m, req |-> request]
  ELSE Let([m1 \in {IF request.params # NULL
                    THEN jesen_destroy(m, request.params) ELSE m} |->
          IF params # NULL /\ ~jesen_value_is_array(m1.h, params)
             /\ ~jesen_value_is_object(m1.h, params)
          THEN [err |-> JESENRPC_ERR_VALIDATION, m |-> m1, req |-> request]
          ELSE [err |-> JESENRPC_ERR_NONE, m |-> m1,
                req |-> [request EXCEPT !.params = params]]])

jesenrpc_request_set_params(m, request, params) ==
  IF request.self = NULL
  THEN [err |-> JESENRPC_ERR_INVALID_ARGS, m |-> m, req |-> request]
  ELSE IF params # NULL /\ ~jesen_value_is_array(m.h, params)
          /\ ~jesen_value_is_object(m.h, params)
  THEN [err |-> JESENRPC_ERR_VALIDATION, m |-> m, req |-> request]
  ELSE [err |-> JESENRPC_ERR_NONE,
        m |-> IF request.params # NULL THEN jesen_destroy(m, request.params) ELSE m,
        req |-> [request EXCEPT !.params = params]]

jesenrpc_request_is_notification(request) ==
  IF request.self = NULL THEN FALSE ELSE request.id.kind = JESENRPC_ID_NONE

jesenrpc_request_validate(h, request) ==
  IF request.self = NULL \/ request.method_name = NULL
  THEN JESENRPC_ERR_INVALID_ARGS
  ELSE IF request.jsonrpc # JESENRPC_JSONRPC_VERSION
  THEN JESENRPC_ERR_VALIDATION
  ELSE IF h[request.method_name].s.len = 0
          \/ h[request.method_name].s.len > JESENRPC_METHOD_NAME_MAX_LEN
  THEN JESENRPC_ERR_VALIDATION
  ELSE IF request.params # NULL /\ ~jesen_value_is_array(h, request.params)
          /\ ~jesen_value_is_object(h, request.params)
  THEN JESENRPC_ERR_VALIDATION
  ELSE IF request.id.kind = JESENRPC_ID_STRING
          /\ (request.id.data = NULL \/ request.id.len = 0)
  THEN JESENRPC_ERR_VALIDATION
  ELSE JESENRPC_ERR_NONE

jesenrpc_request_destroy(m, request) ==
  IF request.self = NULL
  THEN [err |-> JESENRPC_ERR_INVALID_ARGS, m |-> m]
  ELSE Let([m1 \in {IF request.params # NULL THEN jesen_destroy(m, request.params) ELSE m} |->
           Let([m2 \in {jrpc_id_cleanup(m1, request.id).m} |->
           Let([m3 \in {IF request.method_name # NULL THEN free(m2, request.method_name) ELSE m2} |->
          [err |-> JESENRPC_ERR_NONE, m |-> free(m3, request.self)]])])])

jesenrpc_request_create_with_id(m, method_name, id) ==
  Let([c \in {jesenrpc_request_create(m, method_name)} |->
     IF c.err # JESENRPC_ERR_NONE
     THEN c
     ELSE Let([s \in {jesenrpc_request_set_id(c.m, c.req, id)} |->
             IF s.err # JESENRPC_ERR_NONE
             THEN [err |-> s.err, m |-> jesenrpc_request_destroy(s.m, s.req).m,
                   req |-> NoRequest]
             ELSE s])])

\* ------------------------------------------------------------------------
\* Build and serialize
\* ------------------------------------------------------------------------
\* an identifier writer that leaves a null id out of the object
jrpc_add_id_to_object_null_absent(m, object, id) ==
  CASE id.kind \in {JESENRPC_ID_NONE, JESENRPC_ID_NULL} ->
         [err |-> JESENRPC_ERR_NONE, m |-> m]
    [] id.kind = JESENRPC_ID_STRING ->
         IF id.data = NULL
         THEN [err |-> JESENRPC_ERR_INVALID_ARGS, m |-> m]
         ELSE jesen_object_add_string(m, object, "id", Str(id.len, m.h[id.data].s.txt))
    [] id.kind = JESENRPC_ID_NUMBER ->
         IF I64LE(INT32_MIN, id.number) /\ I64LE(id.number, INT32_MAX)
         THEN jesen_object_add_int32(m, object, "id", id.number)
         ELSE jesen_object_add_double(m, object, "id", I64ToDouble(id.number))
    [] OTHER -> [err |-> JESENRPC_ERR_INVALID_ARGS, m |-> m]

jrpc_add_id_to_object(m, object, id) ==
  CASE id.kind = JESENRPC_ID_NONE -> [err |-> JESENRPC_ERR_NONE, m |-> m]
    [] id.kind = JESENRPC_ID_NULL -> jesen_object_add_null(m, object, "id")
    [] id.kind = JESENRPC_ID_STRING ->
         IF id.data = NULL
         THEN [err |-> JESENRPC_ERR_INVALID_ARGS, m |-> m]
         ELSE jesen_object_add_string(m, object, "id", Str(id.len, m.h[id.data].s.txt))
    [] id.kind = JESENRPC_ID_NUMBER ->
         IF I64LE(INT32_MIN, id.number) /\ I64LE(id.number, INT32_MAX)
         THEN jesen_object_add_int32(m, object, "id", id.number)
         ELSE jesen_object_add_double(m, object, "id", I64ToDouble(id.number))
    [] OTHER -> [err |-> JESENRPC_ERR_INVALID_ARGS, m |-> m]

jrpc_build_request_node(m, request) ==
  Let([v \in {jesenrpc_request_validate(m.h, request)} |->
     IF v # JESENRPC_ERR_NONE
     THEN [err |-> v, m |-> m, out |-> NULL]
     ELSE
  Let([r \in {jesen_object_create(m)} |->
     IF r.err # JESEN_ERR_NONE
     THEN [err |-> r.err, m |-> r.m, out |-> NULL]
     ELSE
  Let([a1 \in {jesen_object_add_string(r.m, r.p, "jsonrpc", JESENRPC_JSONRPC_VERSION)} |->
     IF a1.err # JESEN_ERR_NONE
     THEN [err |-> a1.err, m |-> jesen_destroy(a1.m, r.p), out |-> NULL]
     ELSE
  Let([a2 \in {jrpc_add_id_to_object(a1.m, r.p, request.id)} |->
     IF a2.err # JESEN_ERR_NONE
     THEN [err |-> a2.err, m |-> jesen_destroy(a2.m, r.p), out |-> NULL]
     ELSE
  Let([a3 \in {jesen_object_add_string(a2.m, r.p, "method", a2.m.h[request.method_name].s)} |->
     IF a3.err # JESEN_ERR_NONE
     THEN [err |-> a3.err, m |-> jesen_destroy(a3.m, r.p), out |-> NULL]
     ELSE IF request.params # NULL
     THEN Let([a4 \in {jesen_node_assign_to(a3.m, r.p, "params", request.params)} |->
             IF a4.err # JESEN_ERR_NONE
             THEN [err |-> a4.err, m |-> jesen_destroy(a4.m, r.p), out |-> NULL]
             ELSE [err |-> JESENRPC_ERR_NONE, m |-> a4.m, out |-> r.p]])
     ELSE [err |-> JESENRPC_ERR_NONE, m |-> a3.m, out |-> r.p]])])])])])

\* out_buf is TRUE for a buffer, FALSE for a null pointer
jrpc_serialize_node(m, node, out_buf, out_buf_len) ==
  IF node = NULL \/ ~out_buf \/ out_buf_len = 0
  THEN [err |-> JESENRPC_ERR_INVALID_ARGS, text |-> NoText, m |-> m]
  ELSE jesen_serialize(m, node, out_buf_len)

\* serialize that destroys the output tree with params still in it
jesenrpc_request_serialize_no_detach(m, request, out_buf, out_buf_len) ==
  Let([b \in {jrpc_build_request_node(m, request)} |->
     IF b.err # JESENRPC_ERR_NONE
     THEN [err |-> b.err, text |-> NoText, m |-> b.m]
     ELSE Let([s \in {jrpc_serialize_node(b.m, b.out, out_buf, out_buf_len)} |->
             [err |-> s.err, text |-> s.text, m |-> jesen_destroy(s.m, b.out)]])])

jesenrpc_request_serialize(m, request, out_buf, out_buf_len) ==
  Let([b \in {jrpc_build_request_node(m, request)} |->
     IF b.err # JESENRPC_ERR_NONE
     THEN [err |-> b.err, text |-> NoText, m |-> b.m]
     ELSE Let([s \in {jrpc_serialize_node(b.m, b.out, out_buf, out_buf_len)} |->
              Let([m1 \in {IF request.params # NULL
                    THEN jesen_node_detach(s.m, request.params).m
                    ELSE s.m} |->
             [err |-> s.err, text |-> s.text, m |-> jesen_destroy(m1, b.out)]])])])

\* ------------------------------------------------------------------------
\* Materialize: requests
\* ------------------------------------------------------------------------
\* buffers of 64, 128, ... bytes up to max_attempt
RECURSIVE CopyStringLoop(_, _, _, _)
CopyStringLoop(m, node, buf_size, max_attempt) ==
  IF buf_size > max_attempt
  THEN [err |-> JESENRPC_ERR_INVALID_ARGS, m |-> m, p |-> NULL, len |-> 0]
  ELSE Let([a \in {calloc(m, Buffer(NoStr))} |->
          IF a.p = NULL
          THEN [err |-> JESENRPC_ERR_ALLOC, m |-> a.m, p |-> NULL, len |-> 0]
          ELSE Let([g \in {jesen_value_get_string(a.m.h, node, buf_size)} |->
                  IF g.err = JESEN_ERR_NONE
                  THEN [err |-> JESENRPC_ERR_NONE,
                        m |-> [a.m EXCEPT !.h[a.p].s = g.s], p |-> a.p, len |-> g.s.len]
                  ELSE IF g.err # JESEN_ERR_INVALID_ARGS
                  THEN [err |-> g.err, m |-> free(a.m, a.p), p |-> NULL, len |-> 0]
                  ELSE CopyStringLoop(free(a.m, a.p), node, buf_size * 2, max_attempt)])])

jrpc_copy_string_value(m, node, max_attempt) ==
  IF node = NULL \/ max_attempt = 0
  THEN [err |-> JESENRPC_ERR_INVALID_ARGS, m |-> m, p |-> NULL, len |-> 0]
  ELSE CopyStringLoop(m, node, IdFirstBuf, max_attempt)

\* the read that on a failure returns without releasing its buffer
jrpc_read_object_string_with_limit_keeps_tmp(m, object, key, max_len) ==
  Let([a \in {calloc(m, Buffer(NoStr))} |->
     IF a.p = NULL
     THEN [err |-> JESENRPC_ERR_ALLOC, m |-> a.m, p |-> NULL]
     ELSE Let([g \in {jesen_object_get_string(a.m.h, object, key, max_len + 1)} |->
             IF g.err # JESEN_ERR_NONE
             THEN [err |-> IF g.err = JESEN_ERR_INVALID_ARGS
                           THEN JESENRPC_ERR_VALIDATION ELSE g.err,
                   m |-> a.m, p |-> NULL]
             ELSE [err |-> JESENRPC_ERR_NONE,
                   m |-> [a.m EXCEPT !.h[a.p].s = g.s], p |-> a.p]])])

jrpc_read_object_string_with_limit(m, object, key, max_len) ==
  Let([a \in {calloc(m, Buffer(NoStr))} |->
     IF a.p = NULL
     THEN [err |-> JESENRPC_ERR_ALLOC, m |-> a.m, p |-> NULL]
     ELSE Let([g \in {jesen_object_get_string(a.m.h, object, key, max_len + 1)} |->
             IF g.err # JESEN_ERR_NONE
             THEN [err |-> IF g.err = JESEN_ERR_INVALID_ARGS
                           THEN JESENRPC_ERR_VALIDATION ELSE g.err,
                   m |-> free(a.m, a.p), p |-> NULL]
             ELSE [err |-> JESENRPC_ERR_NONE,
                   m |-> [a.m EXCEPT !.h[a.p].s = g.s], p |-> a.p]])])

jrpc_parse_id(m, id_node, out_id, ub) ==
  IF jesen_value_is_null(m.h, id_node)
  THEN jesenrpc_id_set_null(m, out_id)
  ELSE IF jesen_value_is_string(m.h, id_node)
  THEN Let([c \in {jrpc_copy_string_value(m, id_node, IdMaxAttempt)} |->
          IF c.err # JESEN_ERR_NONE
          THEN [err |-> c.err, m |-> c.m, id |-> out_id]
          ELSE [err |-> JESENRPC_ERR_NONE, m |-> jrpc_id_cleanup(c.m, out_id).m,
                id |-> Id(JESENRPC_ID_STRING, I64Zero, c.p, c.len)]])
  ELSE IF jesen_value_is_double(m.h, id_node)
  THEN Let([val \in {jesen_value_get_double(m.h, id_node).d} |->
          IF DblLT(I64ToDouble(INT64_MAX), val) \/ DblLT(val, I64ToDouble(INT64_MIN))
          THEN [err |-> JESENRPC_ERR_VALIDATION, m |-> m, id |-> out_id]
          ELSE Let([as_int \in {DoubleToI64(val, ub)} |->
                  IF ~jrpc_doubles_equal(I64ToDouble(as_int), val)
                  THEN [err |-> JESENRPC_ERR_VALIDATION, m |-> m, id |-> out_id]
                  ELSE jesenrpc_id_set_number(m, out_id, as_int)])])
  ELSE [err |-> JESENRPC_ERR_VALIDATION, m |-> m, id |-> out_id]

\* materialize that leaves params in the parsed tree
jrpc_parse_request_node_no_detach(m, root, ub) ==
  IF root = NULL
  THEN [err |-> JESENRPC_ERR_INVALID_ARGS, m |-> m, req |-> NoRequest]
  ELSE IF ~jesen_value_is_object(m.h, root)
  THEN [err |-> JESENRPC_ERR_VALIDATION, m |-> m, req |-> NoRequest]
  ELSE
  Let([ver \in {jrpc_read_object_string_with_limit(m, root, "jsonrpc",
                                                JESENRPC_JSONRPC_VERSION_LEN)} |->
     IF ver.err # JESEN_ERR_NONE
     THEN [err |-> ver.err, m |-> ver.m, req |-> NoRequest]
     ELSE
  Let([version_ok \in {ver.m.h[ver.p].s = JESENRPC_JSONRPC_VERSION} |->
      Let([m1 \in {free(ver.m, ver.p)} |->
     IF ~version_ok
     THEN [err |-> JESENRPC_ERR_VALIDATION, m |-> m1, req |-> NoRequest]
     ELSE
  Let([method \in {jrpc_read_object_string_with_limit(m1, root, "method",
                                                   JESENRPC_METHOD_NAME_MAX_LEN)} |->
     IF method.err # JESEN_ERR_NONE
     THEN [err |-> method.err, m |-> method.m, req |-> NoRequest]
     ELSE
  Let([params_node \in {jesen_node_find(method.m.h, root, "params")} |->
      Let([has_params \in {params_node.err = JESEN_ERR_NONE} |->
      Let([id_node \in {jesen_node_find(method.m.h, root, "id")} |->
      Let([a \in {calloc(method.m, Struct("request"))} |->
     IF a.p = NULL
     THEN [err |-> JESENRPC_ERR_ALLOC, m |-> free(a.m, method.p), req |-> NoRequest]
     ELSE
  Let([req0 \in {Request(a.p, JESENRPC_JSONRPC_VERSION, IdZero, method.p, NULL)} |->
     IF has_params /\ ~jesen_value_is_object(a.m.h, params_node.p)
        /\ ~jesen_value_is_array(a.m.h, params_node.p)
     THEN [err |-> JESENRPC_ERR_VALIDATION,
           m |-> jesenrpc_request_destroy(a.m, req0).m, req |-> NoRequest]
     ELSE
  Let([det \in {[err |-> JESEN_ERR_NONE, m |-> a.m]} |->
     IF det.err # JESEN_ERR_NONE
     THEN [err |-> det.err, m |-> jesenrpc_request_destroy(det.m, req0).m,
           req |-> NoRequest]
     ELSE
  Let([req1 \in {[req0 EXCEPT !.params = IF has_params THEN params_node.p ELSE NULL]} |->
     IF id_node.p # NULL
     THEN Let([pid \in {jrpc_parse_id(det.m, id_node.p, req1.id, ub)} |->
             IF pid.err # JESEN_ERR_NONE
             THEN [err |-> pid.err,
                   m |-> jesenrpc_request_destroy(pid.m, [req1 EXCEPT !.id = pid.id]).m,
                   req |-> NoRequest]
             ELSE [err |-> JESENRPC_ERR_NONE, m |-> pid.m,
                   req |-> [req1 EXCEPT !.id = pid.id]]])
     ELSE [err |-> JESENRPC_ERR_NONE, m |-> det.m, req |-> req1]])])])])])])])])])])])

jrpc_parse_request_node(m, root, ub) ==
  IF root = NULL
  THEN [err |-> JESENRPC_ERR_INVALID_ARGS, m |-> m, req |-> NoRequest]
  ELSE IF ~jesen_value_is_object(m.h, root)
  THEN [err |-> JESENRPC_ERR_VALIDATION, m |-> m, req |-> NoRequest]
  ELSE
  Let([ver \in {jrpc_read_object_string_with_limit(m, root, "jsonrpc",
                                                JESENRPC_JSONRPC_VERSION_LEN)} |->
     IF ver.err # JESEN_ERR_NONE
     THEN [err |-> ver.err, m |-> ver.m, req |-> NoRequest]
     ELSE
  Let([version_ok \in {ver.m.h[ver.p].s = JESENRPC_JSONRPC_VERSION} |->
      Let([m1 \in {free(ver.m, ver.p)} |->
     IF ~version_ok
     THEN [err |-> JESENRPC_ERR_VALIDATION, m |-> m1, req |-> NoRequest]
     ELSE
  Let([method \in {jrpc_read_object_string_with_limit(m1, root, "method",
                                                   JESENRPC_METHOD_NAME_MAX_LEN)} |->
     IF method.err # JESEN_ERR_NONE
     THEN [err |-> method.err, m |-> method.m, req |-> NoRequest]
     ELSE
  Let([params_node \in {jesen_node_find(method.m.h, root, "params")} |->
      Let([has_params \in {params_node.err = JESEN_ERR_NONE} |->
      Let([id_node \in {jesen_node_find(method.m.h, root, "id")} |->
      Let([a \in {calloc(method.m, Struct("request"))} |->
     IF a.p = NULL
     THEN [err |-> JESENRPC_ERR_ALLOC, m |-> free(a.m, method.p), req |-> NoRequest]
     ELSE
  Let([req0 \in {Request(a.p, JESENRPC_JSONRPC_VERSION, IdZero, method.p, NULL)} |->
     IF has_params /\ ~jesen_value_is_object(a.m.h, params_node.p)
        /\ ~jesen_value_is_array(a.m.h, params_node.p)
     THEN [err |-> JESENRPC_ERR_VALIDATION,
           m |-> jesenrpc_request_destroy(a.m, req0).m, req |-> NoRequest]
     ELSE
  Let([det \in {IF has_params
             THEN jesen_node_detach(a.m, params_node.p)
             ELSE [err |-> JESEN_ERR_NONE, m |-> a.m]} |->
     IF det.err # JESEN_ERR_NONE
     THEN [err |-> det.err, m |-> jesenrpc_request_destroy(det.m, req0).m,
           req |-> NoRequest]
     ELSE
  Let([req1 \in {[req0 EXCEPT !.params = IF has_params THEN params_node.p ELSE NULL]} |->
     IF id_node.p # NULL
     THEN Let([pid \in {jrpc_parse_id(det.m, id_node.p, req1.id, ub)} |->
             IF pid.err # JESEN_ERR_NONE
             THEN [err |-> pid.err,
                   m |-> jesenrpc_request_destroy(pid.m, [req1 EXCEPT !.id = pid.id]).m,
                   req |-> NoRequest]
             ELSE [err |-> JESENRPC_ERR_NONE, m |-> pid.m,
                   req |-> [req1 EXCEPT !.id = pid.id]]])
     ELSE [err |-> JESENRPC_ERR_NONE, m |-> det.m, req |-> req1]])])])])])])])])])])])

jrpc_parse_buffer_as_node(m, buf) == jesen_parse(m, buf)

\* buf is the text, or NoText for a null pointer
jesenrpc_request_parse(m, buf, ub) ==
  IF buf = NoText
  THEN [err |-> JESENRPC_ERR_INVALID_ARGS, m |-> m, req |-> NoRequest]
  ELSE Let([r \in {jrpc_parse_buffer_as_node(m, buf)} |->
          IF r.err # JESENRPC_ERR_NONE
          THEN [err |-> r.err, m |-> r.m, req |-> NoRequest]
          ELSE Let([q \in {jrpc_parse_request_node(r.m, r.p, ub)} |->
                  [err |-> q.err, m |-> jesen_destroy(q.m, r.p), req |-> q.req]])])

\* ------------------------------------------------------------------------
\* Error objects and responses
\* ------------------------------------------------------------------------
\* jesenrpc_error_object_t
ErrorObject(self, code, message, data) ==
  [self |-> self, code |-> code, message |-> message, data |-> data]

NoError == ErrorObject(NULL, I64Zero, NULL, NULL)

\* jesenrpc_response_t; error holds the pointed-to error object
Response(self, jsonrpc, id, result, error) ==
  [self |-> self, jsonrpc |-> jsonrpc, id |-> id, result |-> result, error |-> error]

NoResponse == Response(NULL, NoStr, IdZero, NULL, NoError)

jesenrpc_error_object_create(m, code, message) ==
  IF message = NullStr \/ message.len = 0
  THEN [err |-> JESENRPC_ERR_INVALID_ARGS, m |-> m, error |-> NoError]
  ELSE Let([a \in {calloc(m, Struct("error"))} |->
          IF a.p = NULL
          THEN [err |-> JESENRPC_ERR_ALLOC, m |-> a.m, error |-> NoError]
          ELSE Let([d \in {jrpc_strdup(a.m, message, message.len)} |->
                  IF d.err # JESENRPC_ERR_NONE
                  THEN [err |-> d.err, m |-> free(d.m, a.p), error |-> NoError]
                  ELSE [err |-> JESENRPC_ERR_NONE, m |-> d.m,
                        error |-> ErrorObject(a.p, code, d.p, NULL)]])])

jesenrpc_error_object_set_data(m, error, data) ==
  IF error.self = NULL
  THEN [err |-> JESENRPC_ERR_INVALID_ARGS, m |-> m, error |-> error]
  ELSE [err |-> JESENRPC_ERR_NONE,
        m |-> IF error.data # NULL /\ error.data # data
              THEN jesen_destroy(m, error.data) ELSE m,
        error |-> [error EXCEPT !.data = data]]

jesenrpc_error_object_validate(h, error) ==
  IF error.self = NULL \/ error.message = NULL
  THEN JESENRPC_ERR_INVALID_ARGS
  ELSE IF h[error.message].s.len = 0
  THEN JESENRPC_ERR_VALIDATION
  ELSE JESENRPC_ERR_NONE

jesenrpc_error_object_destroy(m, error) ==
  IF error.self = NULL
  THEN [err |-> JESENRPC_ERR_INVALID_ARGS, m |-> m]
  ELSE Let([m1 \in {IF error.message # NULL THEN free(m, error.message) ELSE m} |->
           Let([m2 \in {IF error.data # NULL THEN jesen_destroy(m1, error.data) ELSE m1} |->
          [err |-> JESENRPC_ERR_NONE, m |-> free(m2, error.self)]])])

jesenrpc_response_create_with_id(m, id) ==
  Let([a \in {calloc(m, Struct("response"))} |->
     IF a.p = NULL
     THEN [err |-> JESENRPC_ERR_ALLOC, m |-> a.m, resp |-> NoResponse]
     ELSE Let([c \in {jrpc_id_clone(a.m, id, IdZero)} |->
             IF c.err # JESENRPC_ERR_NONE
             THEN [err |-> c.err, m |-> free(c.m, a.p), resp |-> NoResponse]
             ELSE [err |-> JESENRPC_ERR_NONE, m |-> c.m,
                   resp |-> Response(a.p, JESENRPC_JSONRPC_VERSION, c.id, NULL, NoError)]])])

\* create_for_request that does not look at the id kind
jesenrpc_response_create_for_request_any_id(m, request) ==
  IF request.self = NULL
  THEN [err |-> JESENRPC_ERR_INVALID_ARGS, m |-> m, resp |-> NoResponse]
  ELSE jesenrpc_response_create_with_id(m, request.id)

jesenrpc_response_create_for_request(m, request) ==
  IF request.self = NULL
  THEN [err |-> JESENRPC_ERR_INVALID_ARGS, m |-> m, resp |-> NoResponse]
  ELSE IF request.id.kind = JESENRPC_ID_NONE
  THEN [err |-> JESENRPC_ERR_INVALID_ARGS, m |-> m, resp |-> NoResponse]
  ELSE jesenrpc_response_create_with_id(m, request.id)

jesenrpc_response_create(m, request_id) ==
  jesenrpc_response_create_with_id(m, Id(JESENRPC_ID_NUMBER, request_id, NULL, 0))

jesenrpc_response_set_result(m, response, result) ==
  IF response.self = NULL \/ result = NULL
  THEN [err |-> JESENRPC_ERR_INVALID_ARGS, resp |-> response]
  ELSE IF response.error.self # NULL \/ response.result # NULL
  THEN [err |-> JESENRPC_ERR_INVALID_ARGS, resp |-> response]
  ELSE [err |-> JESENRPC_ERR_NONE, resp |-> [response EXCEPT !.result = result]]

\* set_error that looks at the error slot only
jesenrpc_response_set_error_slot_only(m, response, error) ==
  IF response.self = NULL \/ error.self = NULL
  THEN [err |-> JESENRPC_ERR_INVALID_ARGS, resp |-> response]
  ELSE IF response.error.self # NULL
  THEN [err |-> JESENRPC_ERR_INVALID_ARGS, resp |-> response]
  ELSE [err |-> JESENRPC_ERR_NONE, resp |-> [response EXCEPT !.error = error]]

jesenrpc_response_set_error(m, response, error) ==
  IF response.self = NULL \/ error.self = NULL
  THEN [err |-> JESENRPC_ERR_INVALID_ARGS, resp |-> response]
  ELSE IF response.result # NULL \/ response.error.self # NULL
  THEN [err |-> JESENRPC_ERR_INVALID_ARGS, resp |-> response]
  ELSE [err |-> JESENRPC_ERR_NONE, resp |-> [response EXCEPT !.error = error]]

jesenrpc_response_validate(h, response) ==
  IF response.self = NULL
  THEN JESENRPC_ERR_INVALID_ARGS
  ELSE IF response.jsonrpc # JESENRPC_JSONRPC_VERSION
  THEN JESENRPC_ERR_VALIDATION
  ELSE IF response.id.kind = JESENRPC_ID_NONE
  THEN JESENRPC_ERR_VALIDATION
  ELSE IF response.id.kind = JESENRPC_ID_STRING
          /\ (response.id.data = NULL \/ response.id.len = 0)
  THEN JESENRPC_ERR_VALIDATION
  ELSE IF (response.result # NULL) = (response.error.self # NULL)
  THEN JESENRPC_ERR_VALIDATION
  ELSE IF response.error.self # NULL
  THEN jesenrpc_error_object_validate(h, response.error)
  ELSE JESENRPC_ERR_NONE

jesenrpc_response_destroy(m, response) ==
  IF response.self = NULL
  THEN [err |-> JESENRPC_ERR_INVALID_ARGS, m |-> m]
  ELSE Let([m1 \in {IF response.result # NULL THEN jesen_destroy(m, response.result) ELSE m} |->
           Let([m2 \in {IF response.error.self # NULL
                 THEN jesenrpc_error_object_destroy(m1, response.error).m ELSE m1} |->
           Let([m3 \in {jrpc_id_cleanup(m2, response.id).m} |->
          [err |-> JESENRPC_ERR_NONE, m |-> free(m3, response.self)]])])])

jrpc_build_error_node(m, error) ==
  Let([v \in {jesenrpc_error_object_validate(m.h, error)} |->
     IF v # JESENRPC_ERR_NONE
     THEN [err |-> v, m |-> m, out |-> NULL]
     ELSE
  Let([r \in {jesen_object_create(m)} |->
     IF r.err # JESEN_ERR_NONE
     THEN [err |-> r.err, m |-> r.m, out |-> NULL]
     ELSE
  Let([a1 \in {jesen_object_add_int32(r.m, r.p, "code", error.code)} |->
     IF a1.err # JESEN_ERR_NONE
     THEN [err |-> a1.err, m |-> jesen_destroy(a1.m, r.p), out |-> NULL]
     ELSE
  Let([a2 \in {jesen_object_add_string(a1.m, r.p, "message", a1.m.h[error.message].s)} |->
     IF a2.err # JESEN_ERR_NONE
     THEN [err |-> a2.err, m |-> jesen_destroy(a2.m, r.p), out |-> NULL]
     ELSE IF error.data # NULL
     THEN Let([a3 \in {jesen_node_assign_to(a2.m, r.p, "data", error.data)} |->
             IF a3.err # JESEN_ERR_NONE
             THEN [err |-> a3.err, m |-> jesen_destroy(a3.m, r.p), out |-> NULL]
             ELSE [err |-> JESENRPC_ERR_NONE, m |-> a3.m, out |-> r.p]])
     ELSE [err |-> JESENRPC_ERR_NONE, m |-> a2.m, out |-> r.p]])])])])

\* a response builder that does not validate the response first
jrpc_build_response_node_unchecked(m, response) ==
  Let([r \in {jesen_object_create(m)} |->
     IF r.err # JESEN_ERR_NONE
     THEN [err |-> r.err, m |-> r.m, out |-> NULL]
     ELSE
  Let([a1 \in {jesen_object_add_string(r.m, r.p, "jsonrpc", JESENRPC_JSONRPC_VERSION)} |->
     IF a1.err # JESEN_ERR_NONE
     THEN [err |-> a1.err, m |-> jesen_destroy(a1.m, r.p), out |-> NULL]
     ELSE
  Let([a2 \in {jrpc_add_id_to_object(a1.m, r.p, response.id)} |->
     IF a2.err # JESEN_ERR_NONE
     THEN [err |-> a2.err, m |-> jesen_destroy(a2.m, r.p), out |-> NULL]
     ELSE IF response.result # NULL
     THEN Let([a3 \in {jesen_node_assign_to(a2.m, r.p, "result", response.result)} |->
             IF a3.err # JESEN_ERR_NONE
             THEN [err |-> a3.err,
                   m |-> jesen_destroy(jesen_node_detach(a3.m, response.result).m, r.p),
                   out |-> NULL]
             ELSE [err |-> JESENRPC_ERR_NONE, m |-> a3.m, out |-> r.p]])
     ELSE IF response.error.self # NULL
     THEN Let([e \in {jrpc_build_error_node(a2.m, response.error)} |->
             IF e.err # JESENRPC_ERR_NONE
             THEN [err |-> e.err, m |-> jesen_destroy(e.m, r.p), out |-> NULL]
             ELSE Let([a4 \in {jesen_node_assign_to(e.m, r.p, "error", e.out)} |->
                     IF a4.err # JESEN_ERR_NONE
                     THEN Let([m1 \in {IF response.error.data # NULL
                                    THEN jesen_node_detach(a4.m, response.error.data).m
                                    ELSE a4.m} |->
                             [err |-> a4.err,
                              m |-> jesen_destroy(jesen_destroy(m1, e.out), r.p),
                              out |-> NULL]])
                     ELSE [err |-> JESENRPC_ERR_NONE, m |-> a4.m, out |-> r.p]])])
     ELSE [err |-> JESENRPC_ERR_NONE, m |-> a2.m, out |-> r.p]])])])

jrpc_build_response_node(m, response) ==
  Let([v \in {jesenrpc_response_validate(m.h, response)} |->
     IF v # JESENRPC_ERR_NONE
     THEN [err |-> v, m |-> m, out |-> NULL]
     ELSE
  Let([r \in {jesen_object_create(m)} |->
     IF r.err # JESEN_ERR_NONE
     THEN [err |-> r.err, m |-> r.m, out |-> NULL]
     ELSE
  Let([a1 \in {jesen_object_add_string(r.m, r.p, "jsonrpc", JESENRPC_JSONRPC_VERSION)} |->
     IF a1.err # JESEN_ERR_NONE
     THEN [err |-> a1.err, m |-> jesen_destroy(a1.m, r.p), out |-> NULL]
     ELSE
  Let([a2 \in {jrpc_add_id_to_object(a1.m, r.p, response.id)} |->
     IF a2.err # JESEN_ERR_NONE
     THEN [err |-> a2.err, m |-> jesen_destroy(a2.m, r.p), out |-> NULL]
     ELSE IF response.result # NULL
     THEN Let([a3 \in {jesen_node_assign_to(a2.m, r.p, "result", response.result)} |->
             IF a3.err # JESEN_ERR_NONE
             THEN [err |-> a3.err,
                   m |-> jesen_destroy(jesen_node_detach(a3.m, response.result).m, r.p),
                   out |-> NULL]
             ELSE [err |-> JESENRPC_ERR_NONE, m |-> a3.m, out |-> r.p]])
     ELSE IF response.error.self # NULL
     THEN Let([e \in {jrpc_build_error_node(a2.m, response.error)} |->
             IF e.err # JESENRPC_ERR_NONE
             THEN [err |-> e.err, m |-> jesen_destroy(e.m, r.p), out |-> NULL]
             ELSE Let([a4 \in {jesen_node_assign_to(e.m, r.p, "error", e.out)} |->
                     IF a4.err # JESEN_ERR_NONE
                     THEN Let([m1 \in {IF response.error.data # NULL
                                    THEN jesen_node_detach(a4.m, response.error.data).m
                                    ELSE a4.m} |->
                             [err |-> a4.err,
                              m |-> jesen_destroy(jesen_destroy(m1, e.out), r.p),
                              out |-> NULL]])
                     ELSE [err |-> JESENRPC_ERR_NONE, m |-> a4.m, out |-> r.p]])])
     ELSE [err |-> JESENRPC_ERR_NONE, m |-> a2.m, out |-> r.p]])])])])

\* serialize that detaches a result but not the data of an error
jesenrpc_response_serialize_result_only(m, response, out_buf, out_buf_len) ==
  Let([b \in {jrpc_build_response_node(m, response)} |->
     IF b.err # JESENRPC_ERR_NONE
     THEN [err |-> b.err, text |-> NoText, m |-> b.m]
     ELSE Let([s \in {jrpc_serialize_node(b.m, b.out, out_buf, out_buf_len)} |->
              Let([m1 \in {IF response.result # NULL
                    THEN jesen_node_detach(s.m, response.result).m
                    ELSE s.m} |->
             [err |-> s.err, text |-> s.text, m |-> jesen_destroy(m1, b.out)]])])])

jesenrpc_response_serialize(m, response, out_buf, out_buf_len) ==
  Let([b \in {jrpc_build_response_node(m, response)} |->
     IF b.err # JESENRPC_ERR_NONE
     THEN [err |-> b.err, text |-> NoText, m |-> b.m]
     ELSE Let([s \in {jrpc_serialize_node(b.m, b.out, out_buf, out_buf_len)} |->
              Let([m1 \in {IF response.result # NULL
                    THEN jesen_node_detach(s.m, response.result).m
                    ELSE IF response.error.self # NULL /\ response.error.data # NULL
                    THEN jesen_node_detach(s.m, response.error.data).m
                    ELSE s.m} |->
             [err |-> s.err, text |-> s.text, m |-> jesen_destroy(m1, b.out)]])])])

\* ------------------------------------------------------------------------
\* Materialize: responses
\* ------------------------------------------------------------------------
jrpc_parse_error_object(m, error_node) ==
  IF error_node = NULL
  THEN [err |-> JESENRPC_ERR_INVALID_ARGS, m |-> m, error |-> NoError]
  ELSE IF ~jesen_value_is_object(m.h, error_node)
  THEN [err |-> JESENRPC_ERR_VALIDATION, m |-> m, error |-> NoError]
  ELSE
  Let([code \in {jesen_object_get_int32(m.h, error_node, "code")} |->
     IF code.err # JESEN_ERR_NONE
     THEN [err |-> IF code.err = JESEN_ERR_NOT_FOUND
                   THEN JESENRPC_ERR_VALIDATION ELSE code.err,
           m |-> m, error |-> NoError]
     ELSE
  Let([message \in {jrpc_read_object_string_with_limit(m, error_node, "message",
                                                    ErrMessageLimit)} |->
     IF message.err # JESEN_ERR_NONE
     THEN [err |-> message.err, m |-> message.m, error |-> NoError]
     ELSE
  Let([data_node \in {jesen_node_find(message.m.h, error_node, "data")} |->
      Let([has_data \in {data_node.err = JESEN_ERR_NONE} |->
      Let([a \in {calloc(message.m, Struct("error"))} |->
     IF a.p = NULL
     THEN [err |-> JESENRPC_ERR_ALLOC, m |-> free(a.m, message.p), error |-> NoError]
     ELSE
  Let([err_obj \in {ErrorObject(a.p, code.v, message.p, NULL)} |->
     IF has_data
     THEN Let([det \in {jesen_node_detach(a.m, data_node.p)} |->
             IF det.err # JESEN_ERR_NONE
             THEN [err |-> det.err,
                   m |-> jesenrpc_error_object_destroy(det.m, err_obj).m,
                   error |-> NoError]
             ELSE [err |-> JESENRPC_ERR_NONE, m |-> det.m,
                   error |-> [err_obj EXCEPT !.data = data_node.p]]])
     ELSE [err |-> JESENRPC_ERR_NONE, m |-> a.m, error |-> err_obj]])])])])])])

\* materialize that does not compare "result" with "error"
jrpc_parse_response_node_any_shape(m, root, ub) ==
  IF root = NULL
  THEN [err |-> JESENRPC_ERR_INVALID_ARGS, m |-> m, resp |-> NoResponse]
  ELSE IF ~jesen_value_is_object(m.h, root)
  THEN [err |-> JESENRPC_ERR_VALIDATION, m |-> m, resp |-> NoResponse]
  ELSE
  Let([ver \in {jrpc_read_object_string_with_limit(m, root, "jsonrpc",
                                                JESENRPC_JSONRPC_VERSION_LEN)} |->
     IF ver.err # JESEN_ERR_NONE
     THEN [err |-> ver.err, m |-> ver.m, resp |-> NoResponse]
     ELSE
  Let([version_ok \in {ver.m.h[ver.p].s = JESENRPC_JSONRPC_VERSION} |->
      Let([m1 \in {free(ver.m, ver.p)} |->
      Let([id_node \in {jesen_node_find(m1.h, root, "id")} |->
      Let([result_node \in {jesen_node_find(m1.h, root, "result")} |->
      Let([error_node \in {jesen_node_find(m1.h, root, "error")} |->
      Let([has_result \in {result_node.err = JESEN_ERR_NONE} |->
      Let([has_error \in {error_node.err = JESEN_ERR_NONE} |->
     IF ~version_ok
     THEN [err |-> JESENRPC_ERR_VALIDATION, m |-> m1, resp |-> NoResponse]
     ELSE IF id_node.err # JESEN_ERR_NONE
     THEN [err |-> JESENRPC_ERR_VALIDATION, m |-> m1, resp |-> NoResponse]
     ELSE
  Let([a \in {calloc(m1, Struct("response"))} |->
     IF a.p = NULL
     THEN [err |-> JESENRPC_ERR_ALLOC, m |-> a.m, resp |-> NoResponse]
     ELSE
  Let([resp0 \in {Response(a.p, JESENRPC_JSONRPC_VERSION, IdZero, NULL, NoError)} |->
      Let([pid \in {jrpc_parse_id(a.m, id_node.p, resp0.id, ub)} |->
      Let([resp1 \in {[resp0 EXCEPT !.id = pid.id]} |->
     IF pid.err # JESEN_ERR_NONE
     THEN [err |-> pid.err, m |-> jesenrpc_response_destroy(pid.m, resp1).m,
           resp |-> NoResponse]
     ELSE IF has_result
     THEN Let([det \in {jesen_node_detach(pid.m, result_node.p)} |->
             IF det.err # JESEN_ERR_NONE
             THEN [err |-> det.err, m |-> jesenrpc_response_destroy(det.m, resp1).m,
                   resp |-> NoResponse]
             ELSE [err |-> JESENRPC_ERR_NONE, m |-> det.m,
                   resp |-> [resp1 EXCEPT !.result = result_node.p]]])
     ELSE Let([e \in {jrpc_parse_error_object(pid.m, error_node.p)} |->
             IF e.err # JESEN_ERR_NONE
             THEN [err |-> e.err, m |-> jesenrpc_response_destroy(e.m, resp1).m,
                   resp |-> NoResponse]
             ELSE [err |-> JESENRPC_ERR_NONE, m |-> e.m,
                   resp |-> [resp1 EXCEPT !.error = e.error]]])])])])])])])])])])])])])

jrpc_parse_response_node(m, root, ub) ==
  IF root = NULL
  THEN [err |-> JESENRPC_ERR_INVALID_ARGS, m |-> m, resp |-> NoResponse]
  ELSE IF ~jesen_value_is_object(m.h, root)
  THEN [err |-> JESENRPC_ERR_VALIDATION, m |-> m, resp |-> NoResponse]
  ELSE
  Let([ver \in {jrpc_read_object_string_with_limit(m, root, "jsonrpc",
                                                JESENRPC_JSONRPC_VERSION_LEN)} |->
     IF ver.err # JESEN_ERR_NONE
     THEN [err |-> ver.err, m |-> ver.m, resp |-> NoResponse]
     ELSE
  Let([version_ok \in {ver.m.h[ver.p].s = JESENRPC_JSONRPC_VERSION} |->
      Let([m1 \in {free(ver.m, ver.p)} |->
      Let([id_node \in {jesen_node_find(m1.h, root, "id")} |->
      Let([result_node \in {jesen_node_find(m1.h, root, "result")} |->
      Let([error_node \in {jesen_node_find(m1.h, root, "error")} |->
      Let([has_result \in {result_node.err = JESEN_ERR_NONE} |->
      Let([has_error \in {error_node.err = JESEN_ERR_NONE} |->
     IF ~version_ok
     THEN [err |-> JESENRPC_ERR_VALIDATION, m |-> m1, resp |-> NoResponse]
     ELSE IF id_node.err # JESEN_ERR_NONE
     THEN [err |-> JESENRPC_ERR_VALIDATION, m |-> m1, resp |-> NoResponse]
     ELSE IF has_result = has_error
     THEN [err |-> JESENRPC_ERR_VALIDATION, m |-> m1, resp |-> NoResponse]
     ELSE
  Let([a \in {calloc(m1, Struct("response"))} |->
     IF a.p = NULL
     THEN [err |-> JESENRPC_ERR_ALLOC, m |-> a.m, resp |-> NoResponse]
     ELSE
  Let([resp0 \in {Response(a.p, JESENRPC_JSONRPC_VERSION, IdZero, NULL, NoError)} |->
      Let([pid \in {jrpc_parse_id(a.m, id_node.p, resp0.id, ub)} |->
      Let([resp1 \in {[resp0 EXCEPT !.id = pid.id]} |->
     IF pid.err # JESEN_ERR_NONE
     THEN [err |-> pid.err, m |-> jesenrpc_response_destroy(pid.m, resp1).m,
           resp |-> NoResponse]
     ELSE IF has_result
     THEN Let([det \in {jesen_node_detach(pid.m, result_node.p)} |->
             IF det.err # JESEN_ERR_NONE
             THEN [err |-> det.err, m |-> jesenrpc_response_destroy(det.m, resp1).m,
                   resp |-> NoResponse]
             ELSE [err |-> JESENRPC_ERR_NONE, m |-> det.m,
                   resp |-> [resp1 EXCEPT !.result = result_node.p]]])
     ELSE Let([e \in {jrpc_parse_error_object(pid.m, error_node.p)} |->
             IF e.err # JESEN_ERR_NONE
             THEN [err |-> e.err, m |-> jesenrpc_response_destroy(e.m, resp1).m,
                   resp |-> NoResponse]
             ELSE [err |-> JESENRPC_ERR_NONE, m |-> e.m,
                   resp |-> [resp1 EXCEPT !.error = e.error]]])])])])])])])])])])])])])

jesenrpc_response_parse(m, buf, ub) ==
  IF buf = NoText
  THEN [err |-> JESENRPC_ERR_INVALID_ARGS, m |-> m, resp |-> NoResponse]
  ELSE Let([r \in {jrpc_parse_buffer_as_node(m, buf)} |->
          IF r.err # JESENRPC_ERR_NONE
          THEN [err |-> r.err, m |-> r.m, resp |-> NoResponse]
          ELSE Let([q \in {jrpc_parse_response_node(r.m, r.p, ub)} |->
                  [err |-> q.err, m |-> jesen_destroy(q.m, r.p), resp |-> q.resp]])])

\* ------------------------------------------------------------------------
\* Batches
\* ------------------------------------------------------------------------
\* jesenrpc_request_batch_t / jesenrpc_response_batch_t: items is the
\* allocation of the pointer array, list the entities it points to
Batch(items, count, list) == [items |-> items, count |-> count, list |-> list]

EmptyBatch == Batch(NULL, 0, <<>>)

RECURSIVE DestroyRequests(_, _, _)
DestroyRequests(m, list, j) ==
  IF j > Len(list) THEN m
  ELSE DestroyRequests(jesenrpc_request_destroy(m, list[j]).m, list, j + 1)

RECURSIVE DestroyResponses(_, _, _)
DestroyResponses(m, list, j) ==
  IF j > Len(list) THEN m
  ELSE DestroyResponses(jesenrpc_response_destroy(m, list[j]).m, list, j + 1)

\* the loop that on a failure releases the array and keeps the items
RECURSIVE RequestBatchLoop_keeps_items(_, _, _, _, _, _, _)
RequestBatchLoop_keeps_items(m, root, items, count, i, list, ub) ==
  IF i >= count
  THEN [err |-> JESENRPC_ERR_NONE, m |-> m, batch |-> Batch(items, count, list)]
  ELSE Let([elem \in {jesen_array_get_value(m.h, root, i)} |->
          IF elem.err # JESEN_ERR_NONE
          THEN [err |-> elem.err, m |-> free(m, items), batch |-> EmptyBatch]
          ELSE Let([q \in {jrpc_parse_request_node(m, elem.p, ub)} |->
                  IF q.err # JESENRPC_ERR_NONE
                  THEN [err |-> q.err, m |-> free(q.m, items), batch |-> EmptyBatch]
                  ELSE RequestBatchLoop_keeps_items(q.m, root, items, count, i + 1,
                                                    Append(list, q.req), ub)])])

\* the loop over the elements, list holding items[0..i-1]
RECURSIVE RequestBatchLoop(_, _, _, _, _, _, _)
RequestBatchLoop(m, root, items, count, i, list, ub) ==
  IF i >= count
  THEN [err |-> JESENRPC_ERR_NONE, m |-> m, batch |-> Batch(items, count, list)]
  ELSE Let([elem \in {jesen_array_get_value(m.h, root, i)} |->
          IF elem.err # JESEN_ERR_NONE
          THEN [err |-> elem.err, m |-> free(DestroyRequests(m, list, 1), items),
                batch |-> EmptyBatch]
          ELSE Let([q \in {jrpc_parse_request_node(m, elem.p, ub)} |->
                  IF q.err # JESENRPC_ERR_NONE
                  THEN [err |-> q.err, m |-> free(DestroyRequests(q.m, list, 1), items),
                        batch |-> EmptyBatch]
                  ELSE RequestBatchLoop(q.m, root, items, count, i + 1,
                                        Append(list, q.req), ub)])])

\* a batch materializer that refuses the empty array, as message_parse does
jrpc_parse_request_batch_from_node_no_empty(m, root, ub) ==
  IF root = NULL
  THEN [err |-> JESENRPC_ERR_INVALID_ARGS, m |-> m, batch |-> EmptyBatch]
  ELSE IF ~jesen_value_is_array(m.h, root)
  THEN [err |-> JESENRPC_ERR_VALIDATION, m |-> m, batch |-> EmptyBatch]
  ELSE Let([count \in {jesen_array_size(m.h, root)} |->
          IF count = 0
          THEN [err |-> JESENRPC_ERR_VALIDATION, m |-> m, batch |-> EmptyBatch]
          ELSE Let([a \in {calloc(m, Obj("items", "request", NoStr, DblZero, NULL, "", 0))} |->
                  IF a.p = NULL
                  THEN [err |-> JESENRPC_ERR_ALLOC, m |-> a.m, batch |-> EmptyBatch]
                  ELSE RequestBatchLoop(a.m, root, a.p, count, 0, <<>>, ub)])])

jrpc_parse_request_batch_from_node(m, root, ub) ==
  IF root = NULL
  THEN [err |-> JESENRPC_ERR_INVALID_ARGS, m |-> m, batch |-> EmptyBatch]
  ELSE IF ~jesen_value_is_array(m.h, root)
  THEN [err |-> JESENRPC_ERR_VALIDATION, m |-> m, batch |-> EmptyBatch]
  ELSE Let([count \in {jesen_array_size(m.h, root)} |->
          IF count = 0
          THEN [err |-> JESENRPC_ERR_NONE, m |-> m, batch |-> EmptyBatch]
          ELSE Let([a \in {calloc(m, Obj("items", "request", NoStr, DblZero, NULL, "", 0))} |->
                  IF a.p = NULL
                  THEN [err |-> JESENRPC_ERR_ALLOC, m |-> a.m, batch |-> EmptyBatch]
                  ELSE RequestBatchLoop(a.m, root, a.p, count, 0, <<>>, ub)])])

RECURSIVE ResponseBatchLoop(_, _, _, _, _, _, _)
ResponseBatchLoop(m, root, items, count, i, list, ub) ==
  IF i >= count
  THEN [err |-> JESENRPC_ERR_NONE, m |-> m, batch |-> Batch(items, count, list)]
  ELSE Let([elem \in {jesen_array_get_value(m.h, root, i)} |->
          IF elem.err # JESEN_ERR_NONE
          THEN [err |-> elem.err, m |-> free(DestroyResponses(m, list, 1), items),
                batch |-> EmptyBatch]
          ELSE Let([q \in {jrpc_parse_response_node(m, elem.p, ub)} |->
                  IF q.err # JESENRPC_ERR_NONE
                  THEN [err |-> q.err, m |-> free(DestroyResponses(q.m, list, 1), items),
                        batch |-> EmptyBatch]
                  ELSE ResponseBatchLoop(q.m, root, items, count, i + 1,
                                         Append(list, q.resp), ub)])])

jrpc_parse_response_batch_from_node(m, root, ub) ==
  IF root = NULL
  THEN [err |-> JESENRPC_ERR_INVALID_ARGS, m |-> m, batch |-> EmptyBatch]
  ELSE IF ~jesen_value_is_array(m.h, root)
  THEN [err |-> JESENRPC_ERR_VALIDATION, m |-> m, batch |-> EmptyBatch]
  ELSE Let([count \in {jesen_array_size(m.h, root)} |->
          IF count = 0
          THEN [err |-> JESENRPC_ERR_NONE, m |-> m, batch |-> EmptyBatch]
          ELSE Let([a \in {calloc(m, Obj("items", "response", NoStr, DblZero, NULL, "", 0))} |->
                  IF a.p = NULL
                  THEN [err |-> JESENRPC_ERR_ALLOC, m |-> a.m, batch |-> EmptyBatch]
                  ELSE ResponseBatchLoop(a.m, root, a.p, count, 0, <<>>, ub)])])

jesenrpc_request_batch_parse(m, buf, ub) ==
  IF buf = NoText
  THEN [err |-> JESENRPC_ERR_INVALID_ARGS, m |-> m, batch |-> EmptyBatch]
  ELSE Let([r \in {jrpc_parse_buffer_as_node(m, buf)} |->
          IF r.err # JESENRPC_ERR_NONE
          THEN [err |-> r.err, m |-> r.m, batch |-> EmptyBatch]
          ELSE Let([q \in {jrpc_parse_request_batch_from_node(r.m, r.p, ub)} |->
                  [err |-> q.err, m |-> jesen_destroy(q.m, r.p), batch |-> q.batch]])])

jesenrpc_response_batch_parse(m, buf, ub) ==
  IF buf = NoText
  THEN [err |-> JESENRPC_ERR_INVALID_ARGS, m |-> m, batch |-> EmptyBatch]
  ELSE Let([r \in {jrpc_parse_buffer_as_node(m, buf)} |->
          IF r.err # JESENRPC_ERR_NONE
          THEN [err |-> r.err, m |-> r.m, batch |-> EmptyBatch]
          ELSE Let([q \in {jrpc_parse_response_batch_from_node(r.m, r.p, ub)} |->
                  [err |-> q.err, m |-> jesen_destroy(q.m, r.p), batch |-> q.batch]])])

jesenrpc_request_batch_destroy(m, batch) ==
  [err |-> JESENRPC_ERR_NONE,
   m |-> IF batch.items # NULL
         THEN free(DestroyRequests(m, batch.list, 1), batch.items) ELSE m,
   batch |-> EmptyBatch]

jesenrpc_response_batch_destroy(m, batch) ==
  [err |-> JESENRPC_ERR_NONE,
   m |-> IF batch.items # NULL
         THEN free(DestroyResponses(m, batch.list, 1), batch.items) ELSE m,
   batch |-> EmptyBatch]

\* the nested node of every requests[j], j < n, leaves the tree it is in
RECURSIVE DetachRequests(_, _, _, _)
DetachRequests(m, list, j, n) ==
  IF j > n THEN m
  ELSE DetachRequests(IF list[j].self # NULL /\ list[j].params # NULL
                      THEN jesen_node_detach(m, list[j].params).m ELSE m,
                      list, j + 1, n)

\* the loop that on a failure destroys the array as it is
RECURSIVE RequestSerializeLoop_no_rollback(_, _, _, _, _)
RequestSerializeLoop_no_rollback(m, array, list, request_count, i) ==
  IF i >= request_count
  THEN [err |-> JESENRPC_ERR_NONE, m |-> m, at |-> i, step |-> "none"]
  ELSE Let([b \in {jrpc_build_request_node(m, list[i + 1])} |->
          IF b.err # JESENRPC_ERR_NONE
          THEN [err |-> b.err, m |-> jesen_destroy(b.m, array), at |-> i, step |-> "build"]
          ELSE Let([a \in {jesen_node_assign_to(b.m, array, "", b.out)} |->
                  IF a.err # JESEN_ERR_NONE
                  THEN [err |-> a.err, at |-> i, step |-> "append",
                        m |-> jesen_destroy(jesen_destroy(a.m, b.out), array)]
                  ELSE RequestSerializeLoop_no_rollback(a.m, array, list, request_count,
                                                        i + 1)])])

\* the loop that builds and appends requests[i], requests[i+1], ...
RECURSIVE RequestSerializeLoop(_, _, _, _, _)
RequestSerializeLoop(m, array, list, request_count, i) ==
  IF i >= request_count
  THEN [err |-> JESENRPC_ERR_NONE, m |-> m, at |-> i, step |-> "none"]
  ELSE Let([b \in {jrpc_build_request_node(m, list[i + 1])} |->
          IF b.err # JESENRPC_ERR_NONE
          THEN [err |-> b.err, at |-> i, step |-> "build",
                m |-> jesen_destroy(DetachRequests(b.m, list, 1, i), array)]
          ELSE Let([a \in {jesen_node_assign_to(b.m, array, "", b.out)} |->
                  IF a.err # JESEN_ERR_NONE
                  THEN [err |-> a.err, at |-> i, step |-> "append",
                        m |-> jesen_destroy(
                                DetachRequests(
                                  jesen_destroy(DetachRequests(a.m, list, i + 1, i + 1),
                                                b.out),
                                  list, 1, i),
                                array)]
                  ELSE RequestSerializeLoop(a.m, array, list, request_count, i + 1)])])

\* requests is the caller's array: items its address, list what it points to;
\* at and step tell where the call stopped
jesenrpc_request_batch_serialize(m, requests, request_count, out_buf, out_buf_len) ==
  IF requests.items = NULL \/ (request_count > 0 /\ ~out_buf)
  THEN [err |-> JESENRPC_ERR_INVALID_ARGS, text |-> NoText, m |-> m, at |-> 0,
        step |-> "args"]
  ELSE Let([r \in {jesen_array_create(m)} |->
          IF r.err # JESEN_ERR_NONE
          THEN [err |-> r.err, text |-> NoText, m |-> r.m, at |-> 0, step |-> "array"]
          ELSE Let([l \in {RequestSerializeLoop(r.m, r.p, requests.list, request_count, 0)} |->
                  IF l.err # JESENRPC_ERR_NONE
                  THEN [err |-> l.err, text |-> NoText, m |-> l.m, at |-> l.at,
                        step |-> l.step]
                  ELSE Let([s \in {jrpc_serialize_node(l.m, r.p, out_buf, out_buf_len)} |->
                          [err |-> s.err, text |-> s.text, at |-> l.at, step |-> "text",
                           m |-> jesen_destroy(
                                   DetachRequests(s.m, requests.list, 1, request_count),
                                   r.p)]])])])

\* the result, else the error data, of a response leaves the tree it is in
DetachResponse(m, response) ==
  IF response.self = NULL THEN m
  ELSE IF response.result # NULL THEN jesen_node_detach(m, response.result).m
  ELSE IF response.error.self # NULL /\ response.error.data # NULL
  THEN jesen_node_detach(m, response.error.data).m
  ELSE m

RECURSIVE DetachResponses(_, _, _, _)
DetachResponses(m, list, j, n) ==
  IF j > n THEN m
  ELSE DetachResponses(DetachResponse(m, list[j]), list, j + 1, n)

RECURSIVE ResponseSerializeLoop(_, _, _, _, _)
ResponseSerializeLoop(m, array, list, response_count, i) ==
  IF i >= response_count
  THEN [err |-> JESENRPC_ERR_NONE, m |-> m, at |-> i, step |-> "none"]
  ELSE Let([b \in {jrpc_build_response_node(m, list[i + 1])} |->
          IF b.err # JESENRPC_ERR_NONE
          THEN [err |-> b.err, at |-> i, step |-> "build",
                m |-> jesen_destroy(DetachResponses(b.m, list, 1, i), array)]
          ELSE Let([a \in {jesen_node_assign_to(b.m, array, "", b.out)} |->
                  IF a.err # JESEN_ERR_NONE
                  THEN [err |-> a.err, at |-> i, step |-> "append",
                        m |-> jesen_destroy(
                                DetachResponses(
                                  jesen_destroy(DetachResponse(a.m, list[i + 1]), b.out),
                                  list, 1, i),
                                array)]
                  ELSE ResponseSerializeLoop(a.m, array, list, response_count, i + 1)])])

jesenrpc_response_batch_serialize(m, responses, response_count, out_buf, out_buf_len) ==
  IF responses.items = NULL \/ (response_count > 0 /\ ~out_buf)
  THEN [err |-> JESENRPC_ERR_INVALID_ARGS, text |-> NoText, m |-> m, at |-> 0,
        step |-> "args"]
  ELSE Let([r \in {jesen_array_create(m)} |->
          IF r.err # JESEN_ERR_NONE
          THEN [err |-> r.err, text |-> NoText, m |-> r.m, at |-> 0, step |-> "array"]
          ELSE Let([l \in {ResponseSerializeLoop(r.m, r.p, responses.list, response_count, 0)} |->
                  IF l.err # JESENRPC_ERR_NONE
                  THEN [err |-> l.err, text |-> NoText, m |-> l.m, at |-> l.at,
                        step |-> l.step]
                  ELSE Let([s \in {jrpc_serialize_node(l.m, r.p, out_buf, out_buf_len)} |->
                          [err |-> s.err, text |-> s.text, at |-> l.at, step |-> "text",
                           m |-> jesen_destroy(
                                   DetachResponses(s.m, responses.list, 1, response_count),
                                   r.p)]])])])

\* ------------------------------------------------------------------------
\* Messages
\* ------------------------------------------------------------------------
JESENRPC_MESSAGE_UNKNOWN == "UNKNOWN"
JESENRPC_MESSAGE_REQUEST_SINGLE == "REQUEST_SINGLE"
JESENRPC_MESSAGE_RESPONSE_SINGLE == "RESPONSE_SINGLE"
JESENRPC_MESSAGE_REQUEST_BATCH == "REQUEST_BATCH"
JESENRPC_MESSAGE_RESPONSE_BATCH == "RESPONSE_BATCH"

\* jesenrpc_message_t, the members of the union side by side
Message(kind, request, response, request_batch, response_batch) ==
  [kind |-> kind, request |-> request, response |-> response,
   request_batch |-> request_batch, response_batch |-> response_batch]

MessageUnknown ==
  Message(JESENRPC_MESSAGE_UNKNOWN, NoRequest, NoResponse, EmptyBatch, EmptyBatch)

\* classification that lets "method" decide alone
jrpc_detect_message_kind_from_object_method_wins(h, object, in_batch, out_kind) ==
  IF object = NULL
  THEN [err |-> JESENRPC_ERR_INVALID_ARGS, kind |-> out_kind]
  ELSE IF ~jesen_value_is_object(h, object)
  THEN [err |-> JESENRPC_ERR_VALIDATION, kind |-> out_kind]
  ELSE Let([has_method \in {jesen_node_find(h, object, "method").err = JESEN_ERR_NONE} |->
           Let([has_result \in {jesen_node_find(h, object, "result").err = JESEN_ERR_NONE} |->
           Let([has_error \in {jesen_node_find(h, object, "error").err = JESEN_ERR_NONE} |->
          IF has_method
          THEN [err |-> JESENRPC_ERR_NONE,
                kind |-> IF in_batch THEN JESENRPC_MESSAGE_REQUEST_BATCH
                         ELSE JESENRPC_MESSAGE_REQUEST_SINGLE]
          ELSE IF has_result \/ has_error
          THEN [err |-> JESENRPC_ERR_NONE,
                kind |-> IF in_batch THEN JESENRPC_MESSAGE_RESPONSE_BATCH
                         ELSE JESENRPC_MESSAGE_RESPONSE_SINGLE]
          ELSE [err |-> JESENRPC_ERR_VALIDATION, kind |-> out_kind]])])])

jrpc_detect_message_kind_from_object(h, object, in_batch, out_kind) ==
  IF object = NULL
  THEN [err |-> JESENRPC_ERR_INVALID_ARGS, kind |-> out_kind]
  ELSE IF ~jesen_value_is_object(h, object)
  THEN [err |-> JESENRPC_ERR_VALIDATION, kind |-> out_kind]
  ELSE Let([has_method \in {jesen_node_find(h, object, "method").err = JESEN_ERR_NONE} |->
           Let([has_result \in {jesen_node_find(h, object, "result").err = JESEN_ERR_NONE} |->
           Let([has_error \in {jesen_node_find(h, object, "error").err = JESEN_ERR_NONE} |->
          IF has_method
          THEN IF has_result \/ has_error
               THEN [err |-> JESENRPC_ERR_VALIDATION, kind |-> out_kind]
               ELSE [err |-> JESENRPC_ERR_NONE,
                     kind |-> IF in_batch THEN JESENRPC_MESSAGE_REQUEST_BATCH
                              ELSE JESENRPC_MESSAGE_REQUEST_SINGLE]
          ELSE IF has_result \/ has_error
          THEN [err |-> JESENRPC_ERR_NONE,
                kind |-> IF in_batch THEN JESENRPC_MESSAGE_RESPONSE_BATCH
                         ELSE JESENRPC_MESSAGE_RESPONSE_SINGLE]
          ELSE [err |-> JESENRPC_ERR_VALIDATION, kind |-> out_kind]])])])

\* classification that goes to the first element without looking at the size
jrpc_detect_message_kind_from_node_no_size(h, root, out_kind) ==
  IF root = NULL
  THEN [err |-> JESENRPC_ERR_INVALID_ARGS, kind |-> out_kind]
  ELSE IF jesen_value_is_array(h, root)
  THEN Let([first \in {jesen_array_get_value(h, root, 0)} |->
          IF first.err # JESEN_ERR_NONE
          THEN [err |-> first.err, kind |-> out_kind]
          ELSE jrpc_detect_message_kind_from_object(h, first.p, TRUE, out_kind)])
  ELSE jrpc_detect_message_kind_from_object(h, root, FALSE, out_kind)

jrpc_detect_message_kind_from_node(h, root, out_kind) ==
  IF root = NULL
  THEN [err |-> JESENRPC_ERR_INVALID_ARGS, kind |-> out_kind]
  ELSE IF jesen_value_is_array(h, root)
  THEN IF jesen_array_size(h, root) = 0
       THEN [err |-> JESENRPC_ERR_VALIDATION, kind |-> out_kind]
       ELSE Let([first \in {jesen_array_get_value(h, root, 0)} |->
               IF first.err # JESEN_ERR_NONE
               THEN [err |-> first.err, kind |-> out_kind]
               ELSE jrpc_detect_message_kind_from_object(h, first.p, TRUE, out_kind)])
  ELSE jrpc_detect_message_kind_from_object(h, root, FALSE, out_kind)

\* kind is the caller's variable, written on success only
\* a peek that keeps the parsed tree
jesenrpc_message_peek_kind_keeps_root(m, buf, kind) ==
  IF buf = NoText
  THEN [err |-> JESENRPC_ERR_INVALID_ARGS, m |-> m, kind |-> kind]
  ELSE Let([r \in {jrpc_parse_buffer_as_node(m, buf)} |->
          IF r.err # JESENRPC_ERR_NONE
          THEN [err |-> r.err, m |-> r.m, kind |-> kind]
          ELSE Let([d \in {jrpc_detect_message_kind_from_node(r.m.h, r.p, kind)} |->
                  [err |-> d.err, m |-> r.m, kind |-> d.kind]])])

jesenrpc_message_peek_kind(m, buf, kind) ==
  IF buf = NoText
  THEN [err |-> JESENRPC_ERR_INVALID_ARGS, m |-> m, kind |-> kind]
  ELSE Let([r \in {jrpc_parse_buffer_as_node(m, buf)} |->
          IF r.err # JESENRPC_ERR_NONE
          THEN [err |-> r.err, m |-> r.m, kind |-> kind]
          ELSE Let([d \in {jrpc_detect_message_kind_from_node(r.m.h, r.p, kind)} |->
                  [err |-> d.err, m |-> jesen_destroy(r.m, r.p), kind |-> d.kind]])])

\* the materializer the kind selects
Dispatch(m, root, kind, ub) ==
  CASE kind = JESENRPC_MESSAGE_REQUEST_SINGLE ->
         Let([q \in {jrpc_parse_request_node(m, root, ub)} |->
            [err |-> q.err, m |-> q.m,
             msg |-> [MessageUnknown EXCEPT !.request = q.req]]])
    [] kind = JESENRPC_MESSAGE_REQUEST_BATCH ->
         Let([q \in {jrpc_parse_request_batch_from_node(m, root, ub)} |->
            [err |-> q.err, m |-> q.m,
             msg |-> [MessageUnknown EXCEPT !.request_batch = q.batch]]])
    [] kind = JESENRPC_MESSAGE_RESPONSE_SINGLE ->
         Let([q \in {jrpc_parse_response_node(m, root, ub)} |->
            [err |-> q.err, m |-> q.m,
             msg |-> [MessageUnknown EXCEPT !.response = q.resp]]])
    [] kind = JESENRPC_MESSAGE_RESPONSE_BATCH ->
         Let([q \in {jrpc_parse_response_batch_from_node(m, root, ub)} |->
            [err |-> q.err, m |-> q.m,
             msg |-> [MessageUnknown EXCEPT !.response_batch = q.batch]]])
    [] OTHER -> [err |-> JESENRPC_ERR_VALIDATION, m |-> m, msg |-> MessageUnknown]

\* message parse that on a failed materialize leaves the kind it detected
jesenrpc_message_parse_keeps_kind(m, buf, ub) ==
  IF buf = NoText
  THEN [err |-> JESENRPC_ERR_INVALID_ARGS, m |-> m, msg |-> MessageUnknown]
  ELSE Let([r \in {jrpc_parse_buffer_as_node(m, buf)} |->
          IF r.err # JESENRPC_ERR_NONE
          THEN [err |-> r.err, m |-> r.m, msg |-> MessageUnknown]
          ELSE Let([d \in {jrpc_detect_message_kind_from_node(r.m.h, r.p,
                                                           JESENRPC_MESSAGE_UNKNOWN)} |->
                  IF d.err # JESENRPC_ERR_NONE
                  THEN [err |-> d.err, m |-> jesen_destroy(r.m, r.p),
                        msg |-> MessageUnknown]
                  ELSE Let([q \in {Dispatch(r.m, r.p, d.kind, ub)} |->
                           Let([m1 \in {jesen_destroy(q.m, r.p)} |->
                          IF q.err # JESENRPC_ERR_NONE
                          THEN [err |-> q.err, m |-> m1,
                                msg |-> [q.msg EXCEPT !.kind = d.kind]]
                          ELSE [err |-> JESENRPC_ERR_NONE, m |-> m1,
                                msg |-> [q.msg EXCEPT !.kind = d.kind]]])])])])

jesenrpc_message_parse(m, buf, ub) ==
  IF buf = NoText
  THEN [err |-> JESENRPC_ERR_INVALID_ARGS, m |-> m, msg |-> MessageUnknown]
  ELSE Let([r \in {jrpc_parse_buffer_as_node(m, buf)} |->
          IF r.err # JESENRPC_ERR_NONE
          THEN [err |-> r.err, m |-> r.m, msg |-> MessageUnknown]
          ELSE Let([d \in {jrpc_detect_message_kind_from_node(r.m.h, r.p,
                                                           JESENRPC_MESSAGE_UNKNOWN)} |->
                  IF d.err # JESENRPC_ERR_NONE
                  THEN [err |-> d.err, m |-> jesen_destroy(r.m, r.p),
                        msg |-> MessageUnknown]
                  ELSE Let([q \in {Dispatch(r.m, r.p, d.kind, ub)} |->
                           Let([m1 \in {jesen_destroy(q.m, r.p)} |->
                          IF q.err # JESENRPC_ERR_NONE
                          THEN [err |-> q.err, m |-> m1, msg |-> MessageUnknown]
                          ELSE [err |-> JESENRPC_ERR_NONE, m |-> m1,
                                msg |-> [q.msg EXCEPT !.kind = d.kind]]])])])])

\* message destroy that leaves the Message as it was
jesenrpc_message_destroy_keeps_kind(m, message) ==
  Let([d \in {CASE message.kind = JESENRPC_MESSAGE_REQUEST_SINGLE ->
                  jesenrpc_request_destroy(m, message.request)
             [] message.kind = JESENRPC_MESSAGE_REQUEST_BATCH ->
                  jesenrpc_request_batch_destroy(m, message.request_batch)
             [] message.kind = JESENRPC_MESSAGE_RESPONSE_SINGLE ->
                  jesenrpc_response_destroy(m, message.response)
             [] message.kind = JESENRPC_MESSAGE_RESPONSE_BATCH ->
                  jesenrpc_response_batch_destroy(m, message.response_batch)
             [] OTHER -> [err |-> JESENRPC_ERR_INVALID_ARGS, m |-> m]} |->
     [err |-> d.err, m |-> d.m,
      msg |-> message]])

jesenrpc_message_destroy(m, message) ==
  Let([d \in {CASE message.kind = JESENRPC_MESSAGE_REQUEST_SINGLE ->
                  jesenrpc_request_destroy(m, message.request)
             [] message.kind = JESENRPC_MESSAGE_REQUEST_BATCH ->
                  jesenrpc_request_batch_destroy(m, message.request_batch)
             [] message.kind = JESENRPC_MESSAGE_RESPONSE_SINGLE ->
                  jesenrpc_response_destroy(m, message.response)
             [] message.kind = JESENRPC_MESSAGE_RESPONSE_BATCH ->
                  jesenrpc_response_batch_destroy(m, message.response_batch)
             [] OTHER -> [err |-> JESENRPC_ERR_INVALID_ARGS, m |-> m]} |->
     [err |-> d.err, m |-> d.m,
      msg |-> IF d.err = JESENRPC_ERR_NONE THEN MessageUnknown ELSE message]])

\* ------------------------------------------------------------------------
\* Callers' inputs
\* ------------------------------------------------------------------------
MaxBatch == 3

NoFault == 0 - 1

Num42 == I64(FALSE, NatBits(42))

NumNeg7 == I64(TRUE, NatBits(7))

NumPow31 == I64(FALSE, Pow2(Int32Bits))

NumPow53Plus1 == I64(FALSE, BitsInc(Pow2(DBL_MANT_DIG)))

IdNumbers == {Num42, NumNeg7, NumPow31, NumPow53Plus1, INT64_MAX}

IdStrings == {Str(3, "abc"), Str(IdMaxAttempt, "k8192"), Str(0, "")}

\* what a caller puts into its own jesenrpc_id_t
IdSpec(kind, number, s) == [kind |-> kind, number |-> number, s |-> s]

IdSpecs ==
  {IdSpec(JESENRPC_ID_NUMBER, n, NoStr) : n \in IdNumbers}
    \cup {IdSpec(JESENRPC_ID_STRING, I64Zero, s) : s \in IdStrings}
    \cup {IdSpec(JESENRPC_ID_NULL, I64Zero, NoStr), IdSpec(JESENRPC_ID_NONE, I64Zero, NoStr)}

\* the caller fills an identifier on its stack
CallerId(m, spec) ==
  CASE spec.kind = JESENRPC_ID_NUMBER -> jesenrpc_id_set_number(m, IdZero, spec.number)
    [] spec.kind = JESENRPC_ID_STRING ->
         jesenrpc_id_set_string(m, IdZero, spec.s, spec.s.len)
    [] spec.kind = JESENRPC_ID_NULL -> jesenrpc_id_set_null(m, IdZero)
    [] OTHER -> jesenrpc_id_set_notification(m, IdZero)

MethodNames == {Str(1, "a"), Str(JESENRPC_METHOD_NAME_MAX_LEN, "m256"),
                Str(JESENRPC_METHOD_NAME_MAX_LEN + 1, "m257"), Str(0, ""), NullStr}

NodeTypes == {"object", "array", "string"}

\* the caller builds a node of its own: {}, [7] or "hi"
CallerNode(m, t) ==
  Let([a \in {calloc(m, Node(t, IF t = "string" THEN Str(2, "hi") ELSE NoStr,
                          DblZero, NULL, "", 0))} |->
     IF t = "array"
     THEN [p |-> a.p,
           m |-> calloc(a.m, Node("number", NoStr, Dbl(FALSE, NatBits(7), <<>>),
                                  a.p, "", 1)).m]
     ELSE a])

SmallBufLen == 8

LargeBufLen == 65536

\* out_buf and out_buf_len
Buffers == {<<FALSE, LargeBufLen>>, <<TRUE, 0>>, <<TRUE, SmallBufLen>>,
            <<TRUE, LargeBufLen>>}

ErrorCodes == {I64(TRUE, NatBits(32601))}

ErrorMessages == {Str(9, "not found"), Str(ErrMessageLimit + 1, "m4097"), Str(0, ""),
                  NullStr}

DataTypes == {"object", "none"}

\* ------------------------------------------------------------------------
\* State
\* ------------------------------------------------------------------------
VARIABLES
  mach,    \* the heap and the fault counter
  req,     \* the caller's request, NoRequest when none
  resp,    \* the caller's response, NoResponse when none
  out,     \* the text of the last serialize call and what it was made from
  preq,    \* the request returned by the last request parse
  presp,   \* the response returned by the last response parse
  msg,     \* the caller's jesenrpc_message_t
  request_batch,   \* the caller's jesenrpc_request_batch_t
  response_batch,  \* the caller's jesenrpc_response_batch_t
  kind,    \* the caller's jesenrpc_message_kind_t
  wire,    \* the text given to the last parse call
  last     \* the last call: its name, its error code, what it did to the heap

vars == <<mach, req, resp, out, preq, presp, msg, request_batch, response_batch, kind,
          wire, last>>



\* again: the call followed a successful serialize of the same, unchanged entity
NoOut == [of |-> "none", err |-> JESENRPC_ERR_NONE, text |-> NoText, again |-> FALSE]

\* Addresses carry no meaning: after each call the heap is renumbered in the
\* order the caller's variables reach its objects, and objects that are released
\* and unreachable are forgotten.
IdPtrs(id) == <<id.data>>

ErrorPtrs(e) == <<e.self, e.message, e.data>>

RequestPtrs(r) == <<r.self, r.method_name, r.params>> \o IdPtrs(r.id)

ResponsePtrs(r) == <<r.self, r.result>> \o IdPtrs(r.id) \o ErrorPtrs(r.error)

RECURSIVE RequestListPtrs(_, _)
RequestListPtrs(list, i) ==
  IF i > Len(list) THEN <<>>
  ELSE RequestPtrs(list[i]) \o RequestListPtrs(list, i + 1)

RECURSIVE ResponseListPtrs(_, _)
ResponseListPtrs(list, i) ==
  IF i > Len(list) THEN <<>>
  ELSE ResponsePtrs(list[i]) \o ResponseListPtrs(list, i + 1)

RequestBatchPtrs(b) == <<b.items>> \o RequestListPtrs(b.list, 1)

ResponseBatchPtrs(b) == <<b.items>> \o ResponseListPtrs(b.list, 1)

MessagePtrs(g) ==
  RequestPtrs(g.request) \o ResponsePtrs(g.response)
    \o RequestBatchPtrs(g.request_batch) \o ResponseBatchPtrs(g.response_batch)

\* an object and the nodes below it, parents first
RECURSIVE Walk(_, _)
RECURSIVE WalkAll(_, _, _)
Walk(h, p) == <<p>> \o WalkAll(h, InOrder(h, Children(h, p)), 1)

WalkAll(h, ps, i) ==
  IF i > Len(ps) THEN <<>>
  ELSE (IF ps[i] = NULL THEN <<>> ELSE Walk(h, ps[i])) \o WalkAll(h, ps, i + 1)

RECURSIVE Dedupe(_, _, _)
Dedupe(ps, i, acc) ==
  IF i > Len(ps) THEN acc
  ELSE Dedupe(ps, i + 1,
              IF \E j \in 1..Len(acc) : acc[j] = ps[i] THEN acc ELSE Append(acc, ps[i]))

RECURSIVE SetToSeq(_)
SetToSeq(S) ==
  IF S = {} THEN <<>>
  ELSE Let([x \in {CHOOSE y \in S : \A z \in S : y <= z} |->
          <<x>> \o SetToSeq(S \ {x})])

\* the objects kept, in their new order
Kept(h, ptrs) ==
  Let([reached \in {Dedupe(WalkAll(h, ptrs, 1), 1, <<>>)} |->
      Let([rest \in {{i \in 1..Len(h) : h[i].st = "live"}
                \ {reached[j] : j \in 1..Len(reached)}} |->
     reached \o SetToSeq(rest)])])

\* old address to new address, NULL for what is forgotten
Renumbering(h, kept) ==
  [p \in 0..Len(h) |->
     IF \E j \in 1..Len(kept) : kept[j] = p
     THEN CHOOSE j \in 1..Len(kept) : kept[j] = p
     ELSE NULL]

Renumber(m, kept, f) ==
  [m EXCEPT !.h = [j \in 1..Len(kept) |-> [m.h[kept[j]] EXCEPT !.parent = f[@]]]]

MapId(f, id) == [id EXCEPT !.data = f[@]]

MapError(f, e) == [e EXCEPT !.self = f[@], !.message = f[@], !.data = f[@]]

MapRequest(f, r) ==
  [r EXCEPT !.self = f[@], !.method_name = f[@], !.params = f[@], !.id = MapId(f, @)]

MapResponse(f, r) ==
  [r EXCEPT !.self = f[@], !.result = f[@], !.id = MapId(f, @), !.error = MapError(f, @)]

MapRequestBatch(f, b) ==
  [b EXCEPT !.items = f[@], !.list = [i \in 1..Len(@) |-> MapRequest(f, @[i])]]

MapResponseBatch(f, b) ==
  [b EXCEPT !.items = f[@], !.list = [i \in 1..Len(@) |-> MapResponse(f, @[i])]]

MapMessage(f, g) ==
  [g EXCEPT !.request = MapRequest(f, @), !.response = MapResponse(f, @),
            !.request_batch = MapRequestBatch(f, @),
            !.response_batch = MapResponseBatch(f, @)]

\* what a call did to the heap: the structs it allocated, its objects still
\* live, the caller's objects it released, and objects released more than once
Fresh(pre, post) == (Len(pre) + 1)..Len(post)

Effect(pre, post) ==
  [made |-> Cardinality({i \in Fresh(pre, post) : post[i].k = "struct"}),
   kept |-> Cardinality({i \in Fresh(pre, post) : post[i].st = "live"}),
   lost |-> Cardinality({i \in 1..Len(pre) : pre[i].st = "live" /\ post[i].st # "live"}),
   twice |-> Cardinality({i \in 1..Len(post) : post[i].rel >= 2})]

Last(op, err, pre, post, arg) ==
  [op |-> op, err |-> err, eff |-> Effect(pre.h, post.h), arg |-> arg]

\* the caller's variables after a call, on the renumbered heap
Settle(m, rq, rs, pq, ps, g, rb, sb) ==
  \E kept \in {Kept(m.h, RequestPtrs(rq) \o ResponsePtrs(rs) \o RequestPtrs(pq)
                           \o ResponsePtrs(ps) \o MessagePtrs(g)
                           \o RequestBatchPtrs(rb) \o ResponseBatchPtrs(sb))} :
    \E f \in {Renumbering(m.h, kept)} :
      /\ mach' = Renumber(m, kept, f)
      /\ req' = MapRequest(f, rq)
      /\ resp' = MapResponse(f, rs)
      /\ preq' = MapRequest(f, pq)
      /\ presp' = MapResponse(f, ps)
      /\ msg' = MapMessage(f, g)
      /\ request_batch' = MapRequestBatch(f, rb)
      /\ response_batch' = MapResponseBatch(f, sb)

Init ==
  /\ mach = Machine(<<>>, NoFault)
  /\ req = NoRequest
  /\ resp = NoResponse
  /\ out = NoOut
  /\ preq = NoRequest
  /\ presp = NoResponse
  /\ msg = MessageUnknown
  /\ request_batch = EmptyBatch
  /\ response_batch = EmptyBatch
  /\ kind = JESENRPC_MESSAGE_UNKNOWN
  /\ wire = NoText
  /\ last = Last("init", JESENRPC_ERR_NONE, Machine(<<>>, NoFault), Machine(<<>>, NoFault),
               "")

\* ------------------------------------------------------------------------
\* Requests: the caller's calls
\* ------------------------------------------------------------------------
RequestCreate ==
  \E method_name \in MethodNames :
    \E c \in {jesenrpc_request_create(mach, method_name)} :
       /\ req = NoRequest /\ resp = NoResponse /\ preq = NoRequest /\ presp = NoResponse
       /\ Settle(c.m, c.req, resp, preq, presp,
                 msg, request_batch, response_batch)
       /\ out' = NoOut
       /\ last' = Last("request_create", c.err, mach, c.m, "")
       /\ UNCHANGED <<kind, wire>>

RequestCreateWithId ==
  \E method_name \in {Str(1, "a"), Str(0, "")}, spec \in IdSpecs :
    \E i \in {CallerId(mach, spec)} :
    \E c \in {jesenrpc_request_create_with_id(i.m, method_name, i.id)} :
    \E d \in {jesenrpc_id_destroy(c.m, i.id)} :
       /\ req = NoRequest /\ resp = NoResponse /\ preq = NoRequest /\ presp = NoResponse
       /\ Settle(d.m, c.req, resp, preq, presp,
                 msg, request_batch, response_batch)
       /\ out' = NoOut
       /\ last' = Last("request_create_with_id", c.err, mach, d.m, "")
       /\ UNCHANGED <<kind, wire>>

RequestSetId ==
  \E spec \in IdSpecs :
    \E i \in {CallerId(mach, spec)} :
    \E c \in {jesenrpc_request_set_id(i.m, req, i.id)} :
    \E d \in {jesenrpc_id_destroy(c.m, i.id)} :
       /\ resp = NoResponse /\ preq = NoRequest /\ presp = NoResponse
       /\ Settle(d.m, c.req, resp, preq, presp,
                 msg, request_batch, response_batch)
       /\ out' = NoOut
       /\ last' = Last("request_set_id", c.err, mach, d.m, "")
       /\ UNCHANGED <<kind, wire>>

\* a rejected node stays the caller's, who destroys it
RequestSetParams ==
  \E t \in NodeTypes \cup {"none"} :
    \E n \in {IF t = "none" THEN [p |-> NULL, m |-> mach] ELSE CallerNode(mach, t)} :
    \E c \in {jesenrpc_request_set_params(n.m, req, n.p)} :
    \E m1 \in {IF c.err # JESENRPC_ERR_NONE /\ n.p # NULL
              THEN jesen_destroy(c.m, n.p) ELSE c.m} :
       /\ resp = NoResponse /\ preq = NoRequest /\ presp = NoResponse
       /\ Settle(m1, c.req, resp, preq, presp,
                 msg, request_batch, response_batch)
       /\ out' = NoOut
       /\ last' = Last("request_set_params", c.err, mach, m1, "")
       /\ UNCHANGED <<kind, wire>>

RequestSerialize ==
  \E b \in Buffers :
    \E c \in {jesenrpc_request_serialize(mach, req, b[1], b[2])} :
       /\ resp = NoResponse /\ preq = NoRequest /\ presp = NoResponse
       /\ Settle(c.m, req, resp, preq, presp,
                 msg, request_batch, response_batch)
       /\ out' = [of |-> "request", err |-> c.err, text |-> c.text,
                  again |-> out.of = "request" /\ out.err = JESENRPC_ERR_NONE]
       /\ last' = Last("request_serialize", c.err, mach, c.m, b)
       /\ UNCHANGED <<kind, wire>>

\* the text just produced is given back to the library
RequestParse ==
  \E ub \in UBChoices :
    \E c \in {jesenrpc_request_parse(mach, out.text, ub)} :
       /\ out.of = "request" /\ out.err = JESENRPC_ERR_NONE
       /\ resp = NoResponse /\ preq = NoRequest /\ presp = NoResponse
       /\ Settle(c.m, req, resp, c.req, presp,
                 msg, request_batch, response_batch)
       /\ out' = out
       /\ last' = Last("request_parse", c.err, mach, c.m, "")
       /\ UNCHANGED <<kind, wire>>

RequestDestroy ==
  \E which \in {"built", "parsed"} :
    \E r \in {IF which = "built" THEN req ELSE preq} :
    \E c \in {jesenrpc_request_destroy(mach, r)} :
    \E ok \in {c.err = JESENRPC_ERR_NONE} :
       /\ Settle(c.m, IF ok /\ which = "built" THEN NoRequest ELSE req, resp,
                 IF ok /\ which = "parsed" THEN NoRequest ELSE preq, presp,
                 msg, request_batch, response_batch)
       /\ out' = IF which = "built" /\ out.of = "request" THEN NoOut ELSE out
       /\ last' = Last("request_destroy", c.err, mach, c.m, which)
       /\ UNCHANGED <<kind, wire>>

\* ------------------------------------------------------------------------
\* Responses: the caller's calls
\* ------------------------------------------------------------------------
ResponseCreate ==
  \E c \in {jesenrpc_response_create(mach, Num42)} :
     /\ req = NoRequest /\ resp = NoResponse /\ preq = NoRequest /\ presp = NoResponse
     /\ Settle(c.m, req, c.resp, preq, presp, msg, request_batch, response_batch)
     /\ out' = NoOut
     /\ last' = Last("response_create", c.err, mach, c.m, "")
     /\ UNCHANGED <<kind, wire>>

ResponseCreateWithId ==
  \E spec \in IdSpecs :
    \E i \in {CallerId(mach, spec)} :
    \E c \in {jesenrpc_response_create_with_id(i.m, i.id)} :
    \E d \in {jesenrpc_id_destroy(c.m, i.id)} :
       /\ req = NoRequest /\ resp = NoResponse /\ preq = NoRequest /\ presp = NoResponse
       /\ Settle(d.m, req, c.resp, preq, presp,
                 msg, request_batch, response_batch)
       /\ out' = NoOut
       /\ last' = Last("response_create_with_id", c.err, mach, d.m, "")
       /\ UNCHANGED <<kind, wire>>

\* req is NoRequest when the caller passes no request
ResponseCreateForRequest ==
  \E c \in {jesenrpc_response_create_for_request(mach, req)} :
     /\ resp = NoResponse /\ preq = NoRequest /\ presp = NoResponse
     /\ Settle(c.m, req, c.resp, preq, presp, msg, request_batch, response_batch)
     /\ out' = NoOut
     /\ last' = Last("response_create_for_request", c.err, mach, c.m, "")
     /\ UNCHANGED <<kind, wire>>

\* a rejected node stays the caller's, who destroys it
ResponseSetResult ==
  \E t \in NodeTypes \cup {"none"} :
    \E n \in {IF t = "none" THEN [p |-> NULL, m |-> mach] ELSE CallerNode(mach, t)} :
    \E c \in {jesenrpc_response_set_result(n.m, resp, n.p)} :
    \E m1 \in {IF c.err # JESENRPC_ERR_NONE /\ n.p # NULL
              THEN jesen_destroy(n.m, n.p) ELSE n.m} :
       /\ req = NoRequest /\ preq = NoRequest /\ presp = NoResponse
       /\ Settle(m1, req, c.resp, preq, presp,
                 msg, request_batch, response_batch)
       /\ out' = NoOut
       /\ last' = Last("response_set_result", c.err, mach, m1, t)
       /\ UNCHANGED <<kind, wire>>

\* the caller makes an error object, with data or without, and hands it over;
\* a rejected error object stays the caller's, who destroys it
ResponseSetError ==
  \E code \in ErrorCodes, message \in ErrorMessages, t \in DataTypes :
    \E e \in {jesenrpc_error_object_create(mach, code, message)} :
    \E n \in {IF t = "none" \/ e.err # JESENRPC_ERR_NONE
             THEN [p |-> NULL, m |-> e.m] ELSE CallerNode(e.m, t)} :
    \E d \in {IF n.p = NULL
             THEN [err |-> JESENRPC_ERR_NONE, m |-> n.m, error |-> e.error]
             ELSE jesenrpc_error_object_set_data(n.m, e.error, n.p)} :
    \E c \in {jesenrpc_response_set_error(d.m, resp, d.error)} :
    \E m1 \in {IF c.err # JESENRPC_ERR_NONE /\ d.error.self # NULL
              THEN jesenrpc_error_object_destroy(d.m, d.error).m ELSE d.m} :
       /\ req = NoRequest /\ preq = NoRequest /\ presp = NoResponse
       /\ Settle(m1, req, c.resp, preq, presp,
                 msg, request_batch, response_batch)
       /\ out' = NoOut
       /\ last' = Last("response_set_error", c.err, mach, m1,
                       IF e.err = JESENRPC_ERR_NONE THEN "error" ELSE "none")
       /\ UNCHANGED <<kind, wire>>

ResponseSerialize ==
  \E b \in Buffers :
    \E c \in {jesenrpc_response_serialize(mach, resp, b[1], b[2])} :
       /\ req = NoRequest /\ preq = NoRequest /\ presp = NoResponse
       /\ Settle(c.m, req, resp, preq, presp,
                 msg, request_batch, response_batch)
       /\ out' = [of |-> "response", err |-> c.err, text |-> c.text,
                  again |-> out.of = "response" /\ out.err = JESENRPC_ERR_NONE]
       /\ last' = Last("response_serialize", c.err, mach, c.m, b)
       /\ UNCHANGED <<kind, wire>>

\* the text just produced is given back to the library
ResponseParse ==
  \E ub \in UBChoices :
    \E c \in {jesenrpc_response_parse(mach, out.text, ub)} :
       /\ out.of = "response" /\ out.err = JESENRPC_ERR_NONE
       /\ req = NoRequest /\ preq = NoRequest /\ presp = NoResponse
       /\ Settle(c.m, req, resp, preq, c.resp,
                 msg, request_batch, response_batch)
       /\ out' = out
       /\ last' = Last("response_parse", c.err, mach, c.m, "")
       /\ UNCHANGED <<kind, wire>>

ResponseDestroy ==
  \E which \in {"built", "parsed"} :
    \E r \in {IF which = "built" THEN resp ELSE presp} :
    \E c \in {jesenrpc_response_destroy(mach, r)} :
    \E ok \in {c.err = JESENRPC_ERR_NONE} :
       /\ Settle(c.m, req, IF ok /\ which = "built" THEN NoResponse ELSE resp,
                 preq, IF ok /\ which = "parsed" THEN NoResponse ELSE presp,
                 msg, request_batch, response_batch)
       /\ out' = IF which = "built" /\ out.of = "response" THEN NoOut ELSE out
       /\ last' = Last("response_destroy", c.err, mach, c.m, which)
       /\ UNCHANGED <<kind, wire>>

\* ------------------------------------------------------------------------
\* Texts arriving from a peer
\* ------------------------------------------------------------------------
WVersion == <<"jsonrpc", VStr(JESENRPC_JSONRPC_VERSION)>>

WMethod == <<"method", VStr(Str(1, "a"))>>

WParams == <<"params", VObj(<<>>)>>

WResult == <<"result", VStr(Str(2, "ok"))>>

WError(kids) == <<"error", VObj(kids)>>

WCode == <<"code", VInt(TRUE, NatBits(32601))>>

WMessage == <<"message", VStr(Str(9, "not found"))>>

WId(v) == <<"id", v>>

Frac(zeros, digit) == Zeros(zeros) \o <<digit>>

\* 1, 1.5, 1 + 1e-11, 1 + 1e-10, -(1 + 1e-11), 1 - 1e-11, 2^53 + 1, 2^63, -2^63,
\* 2^63 + 2^11 and 0.5
WireNumbers ==
  {Dbl(FALSE, <<1>>, <<>>), Dbl(FALSE, <<1>>, <<5>>), Dbl(FALSE, <<1>>, Frac(10, 1)),
   Dbl(FALSE, <<1>>, Frac(9, 1)), Dbl(TRUE, <<1>>, Frac(10, 1)),
   Dbl(FALSE, <<>>, [i \in 1..11 |-> 9]), Dbl(FALSE, BitsInc(Pow2(DBL_MANT_DIG)), <<>>),
   Dbl(FALSE, Pow2(Int64Bits), <<>>), Dbl(TRUE, Pow2(Int64Bits), <<>>),
   Dbl(FALSE, BitsAdd(Pow2(Int64Bits), Pow2(11)), <<>>), Dbl(FALSE, <<>>, <<5>>)}

WireIds ==
  {VNum(n) : n \in WireNumbers} \cup {VStr(Str(3, "abc")), VStr(Str(0, "")), VNull, VBool}

WireRequests ==
  {VObj(<<WVersion, WMethod, WId(v)>>) : v \in WireIds}
    \cup {VObj(<<WVersion, WMethod>>), VObj(<<WVersion, WMethod, WParams>>),
          VObj(<<WVersion, WMethod, <<"params", VInt(FALSE, <<1>>)>>, WId(VNull)>>),
          VObj(<<WMethod, WId(VNull)>>),
          VObj(<<<<"jsonrpc", VStr(Str(3, "1.0"))>>, WMethod>>),
          VObj(<<WVersion, <<"method", VInt(FALSE, <<1>>)>>>>),
          VObj(<<WVersion, <<"method", VStr(Str(0, ""))>>>>)}

WireResponses ==
  {VObj(<<WVersion, WResult, WId(v)>>)
     : v \in {VInt(FALSE, <<1>>), VNum(Dbl(FALSE, <<1>>, <<5>>)), VNull}}
    \cup {VObj(<<WVersion, WError(<<WCode, WMessage>>), WId(VNull)>>),
          VObj(<<WVersion, WError(<<WCode, WMessage, <<"data", VArr(<<VNull>>)>>>>),
                 WId(VStr(Str(3, "abc")))>>),
          VObj(<<WVersion, WError(<<WCode>>), WId(VNull)>>),
          VObj(<<WVersion, WError(<<WCode, <<"message", VStr(Str(0, ""))>>>>),
                 WId(VNull)>>),
          VObj(<<WVersion, WResult, WError(<<WCode, WMessage>>), WId(VNull)>>),
          VObj(<<WVersion, WResult>>),
          VObj(<<WVersion, WId(VNull)>>)}

\* neither a request nor a response
WireOthers ==
  {VObj(<<WVersion, WMethod, WResult, WId(VNull)>>),
   VObj(<<WVersion, WMethod, WError(<<WCode, WMessage>>)>>),
   VObj(<<>>), VInt(FALSE, <<1>>), VStr(Str(1, "a")), VNull, VBad}

\* what the elements of an array are drawn from
WireElements ==
  {VObj(<<WVersion, WMethod, WParams, WId(VStr(Str(3, "abc")))>>),
   VObj(<<WVersion, WMethod, WId(VNum(Dbl(FALSE, <<1>>, <<5>>)))>>),
   VObj(<<WVersion, WError(<<WCode, WMessage, <<"data", VObj(<<>>)>>>>), WId(VNull)>>),
   VObj(<<WVersion, WResult, WError(<<WCode, WMessage>>), WId(VNull)>>)}

WireArrays ==
  {VArr(e) : e \in UNION {[1..n -> WireElements] : n \in 0..MaxBatch}}
    \cup {VArr(<<VNull>>), VArr(<<VArr(<<>>)>>)}

WireTexts == WireRequests \cup WireResponses \cup WireOthers \cup WireArrays

\* ------------------------------------------------------------------------
\* Texts from a peer: the caller's calls
\* ------------------------------------------------------------------------
\* the caller holds nothing the library gave it
Idle ==
  /\ req = NoRequest /\ resp = NoResponse /\ preq = NoRequest /\ presp = NoResponse
  /\ msg = MessageUnknown
  /\ request_batch = EmptyBatch /\ response_batch = EmptyBatch

\* the caller reads a text once, after looking at its kind or without
Unread == Idle /\ last.op \in {"init", "receive", "message_peek_kind"}

Receive ==
  \E w \in WireTexts :
    /\ Idle /\ wire = NoText
    /\ wire' = w
    /\ last' = Last("receive", JESENRPC_ERR_NONE, mach, mach, "")
    /\ UNCHANGED <<mach, req, resp, out, preq, presp, msg, request_batch,
                   response_batch, kind>>

Discard ==
  /\ Idle /\ wire # NoText
  /\ wire' = NoText
  /\ kind' = JESENRPC_MESSAGE_UNKNOWN
  /\ last' = Last("discard", JESENRPC_ERR_NONE, mach, mach, "")
  /\ UNCHANGED <<mach, req, resp, out, preq, presp, msg, request_batch, response_batch>>

MessagePeekKind ==
  \E c \in {jesenrpc_message_peek_kind(mach, wire, kind)} :
     /\ Unread
     /\ Settle(c.m, req, resp, preq, presp, msg, request_batch, response_batch)
     /\ kind' = c.kind
     /\ last' = Last("message_peek_kind", c.err, mach, c.m, "")
     /\ UNCHANGED <<out, wire>>

MessageParse ==
  \E ub \in UBChoices :
    \E c \in {jesenrpc_message_parse(mach, wire, ub)} :
       /\ Unread
       /\ Settle(c.m, req, resp, preq, presp, c.msg, request_batch, response_batch)
       /\ last' = Last("message_parse", c.err, mach, c.m, "")
       /\ UNCHANGED <<out, kind, wire>>

\* a call that follows a successful message destroy is remembered as such
MessageDestroy ==
  \E c \in {jesenrpc_message_destroy(mach, msg)} :
     /\ Settle(c.m, req, resp, preq, presp, c.msg, request_batch, response_batch)
     /\ last' = Last("message_destroy", c.err, mach, c.m,
                     IF last.op = "message_destroy" /\ last.err = JESENRPC_ERR_NONE
                     THEN "again" ELSE "")
     /\ UNCHANGED <<out, kind, wire>>

RequestBatchParse ==
  \E ub \in UBChoices :
    \E c \in {jesenrpc_request_batch_parse(mach, wire, ub)} :
       /\ Unread
       /\ Settle(c.m, req, resp, preq, presp, msg, c.batch, response_batch)
       /\ last' = Last("request_batch_parse", c.err, mach, c.m, "")
       /\ UNCHANGED <<out, kind, wire>>

ResponseBatchParse ==
  \E ub \in UBChoices :
    \E c \in {jesenrpc_response_batch_parse(mach, wire, ub)} :
       /\ Unread
       /\ Settle(c.m, req, resp, preq, presp, msg, request_batch, c.batch)
       /\ last' = Last("response_batch_parse", c.err, mach, c.m, "")
       /\ UNCHANGED <<out, kind, wire>>

RequestBatchDestroy ==
  \E c \in {jesenrpc_request_batch_destroy(mach, request_batch)} :
     /\ Settle(c.m, req, resp, preq, presp, msg, c.batch, response_batch)
     /\ last' = Last("request_batch_destroy", c.err, mach, c.m, "")
     /\ UNCHANGED <<out, kind, wire>>

ResponseBatchDestroy ==
  \E c \in {jesenrpc_response_batch_destroy(mach, response_batch)} :
     /\ Settle(c.m, req, resp, preq, presp, msg, request_batch, c.batch)
     /\ last' = Last("response_batch_destroy", c.err, mach, c.m, "")
     /\ UNCHANGED <<out, kind, wire>>

RequestParseWire ==
  \E ub \in UBChoices :
    \E c \in {jesenrpc_request_parse(mach, wire, ub)} :
       /\ Unread
       /\ Settle(c.m, req, resp, c.req, presp, msg, request_batch, response_batch)
       /\ last' = Last("request_parse", c.err, mach, c.m, "")
       /\ UNCHANGED <<out, kind, wire>>

ResponseParseWire ==
  \E ub \in UBChoices :
    \E c \in {jesenrpc_response_parse(mach, wire, ub)} :
       /\ Unread
       /\ Settle(c.m, req, resp, preq, c.resp, msg, request_batch, response_batch)
       /\ last' = Last("response_parse", c.err, mach, c.m, "")
       /\ UNCHANGED <<out, kind, wire>>

Next ==
  \/ RequestCreate
  \/ RequestCreateWithId
  \/ RequestSetId
  \/ RequestSetParams
  \/ RequestSerialize
  \/ RequestParse
  \/ RequestDestroy
  \/ ResponseCreate
  \/ ResponseCreateWithId
  \/ ResponseCreateForRequest
  \/ ResponseSetResult
  \/ ResponseSetError
  \/ ResponseSerialize
  \/ ResponseParse
  \/ ResponseDestroy

\* the library used to build, send and read back single entities
Spec == Init /\ [][Next]_vars

\* the caller gives a parsed request the params node it already holds
RequestSetParamsSame ==
  /\ preq # NoRequest /\ preq.params # NULL /\ last.op = "request_parse"
  /\ \E c \in {jesenrpc_request_set_params(mach, preq, preq.params)} :
       /\ Settle(c.m, req, resp, c.req, presp, msg, request_batch, response_batch)
       /\ last' = Last("request_set_params", c.err, mach, c.m, "same")
       /\ UNCHANGED <<out, kind, wire>>

NextWire ==
  \/ Receive
  \/ Discard
  \/ MessagePeekKind
  \/ MessageParse
  \/ MessageDestroy
  \/ RequestBatchParse
  \/ ResponseBatchParse
  \/ RequestBatchDestroy
  \/ ResponseBatchDestroy
  \/ RequestParseWire
  \/ RequestSetParamsSame
  \/ ResponseParseWire
  \/ RequestDestroy
  \/ ResponseDestroy

\* the library fed with texts from a peer
SpecWire == Init /\ [][NextWire]_vars

\* ------------------------------------------------------------------------
\* Calls in which one fallible step fails
\* ------------------------------------------------------------------------
MaxFault == 16

\* the call's f-th allocation or tree-library call fails, or none does
Faults == {NoFault} \cup 0..MaxFault

Armed(m, f) == [m EXCEPT !.ff = f]

Disarmed(m) == [m EXCEPT !.ff = NoFault, !.linked = FALSE]

\* the failing call, if an assign, leaves the node linked or not
Linking(m, linked) == [m EXCEPT !.linked = linked]

\* the call got as far as the step that was to fail
Reached(f, m) == f = NoFault \/ m.ff < 0

\* a call is tried with a linking failure only when its failing call is an assign
ReachedAs(f, linked, m) == Reached(f, m) /\ (linked <=> m.ff = AssignLinked)

\* what failed in the call: nothing, a detach, or another step
Outcome(f, m) ==
  IF f = NoFault THEN "none"
  ELSE IF m.ff = DetachFailed THEN "detach"
  ELSE IF m.ff = AssignLinked THEN "linked" ELSE "step"

FaultRequest == VObj(<<WVersion, WMethod, WParams, WId(VStr(Str(3, "abc")))>>)

FaultResult == VObj(<<WVersion, WResult, WId(VInt(FALSE, <<1>>))>>)

FaultError ==
  VObj(<<WVersion, WError(<<WCode, WMessage, <<"data", VObj(<<>>)>>>>), WId(VNull)>>)

FaultTexts ==
  {FaultRequest, FaultResult, FaultError,
   VObj(<<WVersion, WMethod, WId(VStr(Str(3, "abc"))), <<"params", VInt(FALSE, <<1>>)>>>>),
   VObj(<<WVersion, WResult, WError(<<WCode, WMessage>>), WId(VNull)>>),
   VArr(<<FaultRequest, FaultRequest>>), VArr(<<FaultError, FaultResult>>),
   VArr(<<FaultRequest, FaultResult>>), VArr(<<FaultResult, FaultRequest>>),
   VArr(<<>>), VBad}

\* the nodes an entity carries
RequestNested(r) == {r.params} \ {NULL}

ResponseNested(r) == {r.result, r.error.data} \ {NULL}

RECURSIVE RequestsNested(_, _)
RequestsNested(list, i) ==
  IF i > Len(list) THEN {} ELSE RequestNested(list[i]) \cup RequestsNested(list, i + 1)

RECURSIVE ResponsesNested(_, _)
ResponsesNested(list, i) ==
  IF i > Len(list) THEN {} ELSE ResponseNested(list[i]) \cup ResponsesNested(list, i + 1)

Arrive ==
  \E w \in FaultTexts :
    /\ Idle /\ wire = NoText
    /\ wire' = w
    /\ last' = Last("receive", JESENRPC_ERR_NONE, mach, mach, "")
    /\ UNCHANGED <<mach, req, resp, out, preq, presp, msg, request_batch,
                   response_batch, kind>>

RequestParseFault ==
  /\ Unread /\ wire # NoText
  /\ \E ub \in UBChoices, f \in Faults :
       \E c \in {jesenrpc_request_parse(Armed(mach, f), wire, ub)} :
          /\ Reached(f, c.m)
          /\ Settle(Disarmed(c.m), req, resp, c.req, presp, msg, request_batch,
                    response_batch)
          /\ last' = Last("request_parse", c.err, mach, c.m, Outcome(f, c.m))
          /\ UNCHANGED <<out, kind, wire>>

ResponseParseFault ==
  /\ Unread /\ wire # NoText
  /\ \E ub \in UBChoices, f \in Faults :
       \E c \in {jesenrpc_response_parse(Armed(mach, f), wire, ub)} :
          /\ Reached(f, c.m)
          /\ Settle(Disarmed(c.m), req, resp, preq, c.resp, msg, request_batch,
                    response_batch)
          /\ last' = Last("response_parse", c.err, mach, c.m, Outcome(f, c.m))
          /\ UNCHANGED <<out, kind, wire>>

MessageParseFault ==
  /\ Unread /\ wire # NoText
  /\ \E ub \in UBChoices, f \in Faults :
       \E c \in {jesenrpc_message_parse(Armed(mach, f), wire, ub)} :
          /\ Reached(f, c.m)
          /\ Settle(Disarmed(c.m), req, resp, preq, presp, c.msg, request_batch,
                    response_batch)
          /\ last' = Last("message_parse", c.err, mach, c.m, Outcome(f, c.m))
          /\ UNCHANGED <<out, kind, wire>>

RequestBatchParseFault ==
  /\ Unread /\ wire # NoText
  /\ \E ub \in UBChoices, f \in Faults :
       \E c \in {jesenrpc_request_batch_parse(Armed(mach, f), wire, ub)} :
          /\ Reached(f, c.m)
          /\ Settle(Disarmed(c.m), req, resp, preq, presp, msg, c.batch, response_batch)
          /\ last' = Last("request_batch_parse", c.err, mach, c.m, Outcome(f, c.m))
          /\ UNCHANGED <<out, kind, wire>>

ResponseBatchParseFault ==
  /\ Unread /\ wire # NoText
  /\ \E ub \in UBChoices, f \in Faults :
       \E c \in {jesenrpc_response_batch_parse(Armed(mach, f), wire, ub)} :
          /\ Reached(f, c.m)
          /\ Settle(Disarmed(c.m), req, resp, preq, presp, msg, request_batch, c.batch)
          /\ last' = Last("response_batch_parse", c.err, mach, c.m, Outcome(f, c.m))
          /\ UNCHANGED <<out, kind, wire>>

\* the request just parsed is sent on
RequestSerializeFault ==
  /\ preq # NoRequest /\ last.op = "request_parse"
  /\ \E f \in Faults, linked \in BOOLEAN :
       \E c \in {jesenrpc_request_serialize(Linking(Armed(mach, f), linked), preq, TRUE,
                                            LargeBufLen)} :
          /\ ReachedAs(f, linked, c.m)
          /\ Settle(Disarmed(c.m), req, resp, preq, presp, msg, request_batch,
                    response_batch)
          /\ out' = [of |-> "request", err |-> c.err, text |-> c.text, again |-> FALSE]
          /\ last' = Last("request_serialize", c.err, mach, c.m, Outcome(f, c.m))
          /\ UNCHANGED <<kind, wire>>

ResponseSerializeFault ==
  /\ presp # NoResponse /\ last.op = "response_parse"
  /\ \E f \in Faults, linked \in BOOLEAN :
       \E c \in {jesenrpc_response_serialize(Linking(Armed(mach, f), linked), presp, TRUE,
                                             LargeBufLen)} :
          /\ ReachedAs(f, linked, c.m)
          /\ Settle(Disarmed(c.m), req, resp, preq, presp, msg, request_batch,
                    response_batch)
          /\ out' = [of |-> "response", err |-> c.err, text |-> c.text, again |-> FALSE]
          /\ last' = Last("response_serialize", c.err, mach, c.m, Outcome(f, c.m))
          /\ UNCHANGED <<kind, wire>>

\* the caller's array with entry hole a null pointer, as it is when hole is 0
Holed(batch, hole, none) ==
  [batch EXCEPT !.list = [i \in 1..Len(@) |-> IF i = hole THEN none ELSE @[i]]]

\* the batch just parsed is sent on, from the caller's own array of pointers
RequestBatchSerializeFault ==
  /\ request_batch # EmptyBatch /\ last.op = "request_batch_parse"
  /\ \E f \in Faults, hole \in 0..request_batch.count, b \in {TRUE, FALSE} :
       \E c \in {jesenrpc_request_batch_serialize(
                   Armed(mach, f), Holed(request_batch, hole, NoRequest),
                   request_batch.count, b, LargeBufLen)} :
          /\ Reached(f, c.m)
          /\ Settle(Disarmed(c.m), req, resp, preq, presp, msg, request_batch,
                    response_batch)
          /\ out' = [of |-> "request_batch", err |-> c.err, text |-> c.text,
                     again |-> FALSE]
          /\ last' = Last("request_batch_serialize", c.err, mach, c.m,
                          [fault |-> Outcome(f, c.m), at |-> c.at, step |-> c.step,
                           hole |-> hole])
          /\ UNCHANGED <<kind, wire>>

ResponseBatchSerializeFault ==
  /\ response_batch # EmptyBatch /\ last.op = "response_batch_parse"
  /\ \E f \in Faults, hole \in 0..response_batch.count, b \in {TRUE, FALSE} :
       \E c \in {jesenrpc_response_batch_serialize(
                   Armed(mach, f), Holed(response_batch, hole, NoResponse),
                   response_batch.count, b, LargeBufLen)} :
          /\ Reached(f, c.m)
          /\ Settle(Disarmed(c.m), req, resp, preq, presp, msg, request_batch,
                    response_batch)
          /\ out' = [of |-> "response_batch", err |-> c.err, text |-> c.text,
                     again |-> FALSE]
          /\ last' = Last("response_batch_serialize", c.err, mach, c.m,
                          [fault |-> Outcome(f, c.m), at |-> c.at, step |-> c.step,
                           hole |-> hole])
          /\ UNCHANGED <<kind, wire>>

\* Identifiers the caller copies into an entity while one step may fail
FaultIds == {IdSpec(JESENRPC_ID_STRING, I64Zero, Str(3, "abc")),
             IdSpec(JESENRPC_ID_NUMBER, Num42, NoStr)}

\* what the call did to the string buffer of the caller's identifier src:
\* whether the entity's identifier id points to it, and whether it was released
SourceBuffer(f, m, src, id) ==
  [fault |-> Outcome(f, m),
   string |-> src.kind = JESENRPC_ID_STRING /\ src.data # NULL,
   shared |-> src.data # NULL /\ id.data = src.data,
   released |-> src.data # NULL /\ ~Live(m.h, src.data)]

\* the caller destroys its own identifier after the call, as in the tests
RequestCreateWithIdFault ==
  /\ Idle /\ wire = NoText
  /\ \E spec \in FaultIds, f \in Faults :
       \E i \in {CallerId(mach, spec)} :
       \E c \in {jesenrpc_request_create_with_id(Armed(i.m, f), Str(1, "a"), i.id)} :
       \E d \in {jesenrpc_id_destroy(Disarmed(c.m), i.id)} :
          /\ Reached(f, c.m)
          /\ Settle(d.m, c.req, resp, preq, presp, msg, request_batch, response_batch)
          /\ last' = Last("request_create_with_id", c.err, mach, d.m,
                          SourceBuffer(f, c.m, i.id, c.req.id))
          /\ UNCHANGED <<out, kind, wire>>

RequestSetIdFault ==
  /\ req # NoRequest /\ last.op = "request_create_with_id"
  /\ \E spec \in FaultIds, f \in Faults :
       \E i \in {CallerId(mach, spec)} :
       \E c \in {jesenrpc_request_set_id(Armed(i.m, f), req, i.id)} :
       \E d \in {jesenrpc_id_destroy(Disarmed(c.m), i.id)} :
          /\ Reached(f, c.m)
          /\ Settle(d.m, c.req, resp, preq, presp, msg, request_batch, response_batch)
          /\ last' = Last("request_set_id", c.err, mach, d.m,
                          SourceBuffer(f, c.m, i.id, c.req.id))
          /\ UNCHANGED <<out, kind, wire>>

ResponseCreateWithIdFault ==
  /\ Idle /\ wire = NoText
  /\ \E spec \in FaultIds, f \in Faults :
       \E i \in {CallerId(mach, spec)} :
       \E c \in {jesenrpc_response_create_with_id(Armed(i.m, f), i.id)} :
       \E d \in {jesenrpc_id_destroy(Disarmed(c.m), i.id)} :
          /\ Reached(f, c.m)
          /\ Settle(d.m, req, c.resp, preq, presp, msg, request_batch, response_batch)
          /\ last' = Last("response_create_with_id", c.err, mach, d.m,
                          SourceBuffer(f, c.m, i.id, c.resp.id))
          /\ UNCHANGED <<out, kind, wire>>

NextFault ==
  \/ Arrive
  \/ Discard
  \/ RequestParseFault
  \/ ResponseParseFault
  \/ MessageParseFault
  \/ RequestBatchParseFault
  \/ ResponseBatchParseFault
  \/ RequestSerializeFault
  \/ ResponseSerializeFault
  \/ RequestBatchSerializeFault
  \/ ResponseBatchSerializeFault
  \/ RequestCreateWithIdFault
  \/ RequestSetIdFault
  \/ ResponseCreateWithIdFault
  \/ RequestDestroy
  \/ ResponseDestroy
  \/ MessageDestroy
  \/ RequestBatchDestroy
  \/ ResponseBatchDestroy

\* the library fed with texts from a peer while one step of a call may fail
SpecFault == Init /\ [][NextFault]_vars

\* ------------------------------------------------------------------------
\* Properties
\* ------------------------------------------------------------------------
\* the content of a node, NoText for no node
Content(h, p) == IF p = NULL THEN NoText ELSE ToValue(h, p)

SameId(h, a, b) ==
  /\ a.kind = b.kind
  /\ a.kind = JESENRPC_ID_NUMBER => a.number = b.number
  /\ a.kind = JESENRPC_ID_STRING =>
       /\ a.len = b.len
       /\ a.data # NULL /\ b.data # NULL
       /\ h[a.data].s = h[b.data].s

SameRequest(h, a, b) ==
  /\ a.self # NULL /\ b.self # NULL
  /\ h[a.method_name].s = h[b.method_name].s
  /\ SameId(h, a.id, b.id)
  /\ Content(h, a.params) = Content(h, b.params)
  /\ jesenrpc_request_is_notification(a) = jesenrpc_request_is_notification(b)

SameError(h, a, b) ==
  /\ (a.self = NULL) = (b.self = NULL)
  /\ a.self # NULL =>
       /\ a.code = b.code
       /\ h[a.message].s = h[b.message].s
       /\ Content(h, a.data) = Content(h, b.data)

SameResponse(h, a, b) ==
  /\ a.self # NULL /\ b.self # NULL
  /\ SameId(h, a.id, b.id)
  /\ Content(h, a.result) = Content(h, b.result)
  /\ SameError(h, a.error, b.error)

\* C1: every valid request that is serialized and whose text is parsed comes
\* back with the same method name, the same id kind and value, the same params
\* content and the same answer to is_notification.
C1_RequestRoundTrip ==
  (last.op = "request_parse" /\ out.of = "request"
     /\ jesenrpc_request_validate(mach.h, req) = JESENRPC_ERR_NONE)
    => (last.err = JESENRPC_ERR_NONE /\ SameRequest(mach.h, req, preq))

\* a request with a string id and params has come back equal
C1_RoundTripDone ==
  /\ last.op = "request_parse" /\ last.err = JESENRPC_ERR_NONE
  /\ req.id.kind = JESENRPC_ID_STRING /\ req.params # NULL
  /\ SameRequest(mach.h, req, preq)

\* C2: every valid response that is serialized and whose text is parsed comes
\* back with the same id kind and value, and the same result content or an
\* error object with the same code, message and data content.
C2_ResponseRoundTrip ==
  (last.op = "response_parse" /\ out.of = "response"
     /\ jesenrpc_response_validate(mach.h, resp) = JESENRPC_ERR_NONE)
    => (last.err = JESENRPC_ERR_NONE /\ SameResponse(mach.h, resp, presp))

\* a response with an error object carrying data has come back equal
C2_RoundTripDone ==
  /\ last.op = "response_parse" /\ last.err = JESENRPC_ERR_NONE
  /\ resp.error.self # NULL /\ resp.error.data # NULL
  /\ SameResponse(mach.h, resp, presp)

\* C3: on a response that already has a result or an error, set_result and
\* set_error fail with InvalidArgs and change nothing; no response ever holds
\* both a result and an error.
C3_XorSetters ==
  /\ [](resp.result = NULL \/ resp.error.self = NULL)
  /\ [][(last'.op \in {"response_set_result", "response_set_error"}
           /\ (resp.result # NULL \/ resp.error.self # NULL))
          => (last'.err = JESENRPC_ERR_INVALID_ARGS /\ resp' = resp /\ mach' = mach)]_vars

\* set_error was refused on a response that has a result
C3_SecondSetterRefused ==
  /\ last.op = "response_set_error" /\ last.arg = "error"
  /\ last.err = JESENRPC_ERR_INVALID_ARGS
  /\ resp.result # NULL /\ resp.error.self = NULL

\* C4: a request made by jesenrpc_request_create has id kind None and is a
\* notification; jesenrpc_response_create_for_request on a request of id kind
\* None fails with InvalidArgs and makes no response.
C4_Notification ==
  [][/\ (last'.op = "request_create" /\ last'.err = JESENRPC_ERR_NONE)
          => (req'.id.kind = JESENRPC_ID_NONE /\ jesenrpc_request_is_notification(req'))
     /\ (last'.op = "response_create_for_request" /\ req.self # NULL
           /\ req.id.kind = JESENRPC_ID_NONE)
          => (last'.err = JESENRPC_ERR_INVALID_ARGS /\ resp' = NoResponse
                /\ mach' = mach)]_vars

\* a response was asked for a notification and refused
C4_RefusedForNotification ==
  /\ last.op = "response_create_for_request"
  /\ last.err = JESENRPC_ERR_INVALID_ARGS
  /\ req.self # NULL /\ jesenrpc_request_is_notification(req)
  /\ resp = NoResponse

\* what a request and a response own
RequestOwned(h, r) ==
  ({r.self, r.method_name, r.id.data} \ {NULL}) \cup Subtree(h, {r.params} \ {NULL})

ResponseOwned(h, r) ==
  ({r.self, r.id.data, r.error.self, r.error.message} \ {NULL})
    \cup Subtree(h, {r.result, r.error.data} \ {NULL})

LargeBuffer == <<TRUE, LargeBufLen>>

\* C5: serialize of a valid entity into a large buffer succeeds every time it
\* is called in a row, gives the same text each time and leaves the entity as
\* it was; a destroy releases everything the entity owns exactly once.
C5_SerializeRepeatable ==
  [][/\ (last'.op = "request_serialize" /\ last'.arg = LargeBuffer
           /\ jesenrpc_request_validate(mach.h, req) = JESENRPC_ERR_NONE)
          => /\ last'.err = JESENRPC_ERR_NONE
             /\ out'.again => out'.text = out.text
             /\ req' = req /\ mach' = mach
     /\ (last'.op = "response_serialize" /\ last'.arg = LargeBuffer
           /\ jesenrpc_response_validate(mach.h, resp) = JESENRPC_ERR_NONE)
          => /\ last'.err = JESENRPC_ERR_NONE
             /\ out'.again => out'.text = out.text
             /\ resp' = resp /\ mach' = mach
     /\ (last'.op = "request_destroy" /\ last'.err = JESENRPC_ERR_NONE)
          => /\ last'.eff.twice = 0
             /\ last'.eff.lost =
                  Cardinality(RequestOwned(mach.h, IF last'.arg = "built" THEN req ELSE preq))
     /\ (last'.op = "response_destroy" /\ last'.err = JESENRPC_ERR_NONE)
          => /\ last'.eff.twice = 0
             /\ last'.eff.lost =
                  Cardinality(ResponseOwned(mach.h,
                                            IF last'.arg = "built" THEN resp ELSE presp))]_vars

\* a request with params was serialized again, with success
C5_SerializedAgain ==
  /\ last.op = "request_serialize" /\ last.err = JESENRPC_ERR_NONE
  /\ out.again /\ req.params # NULL

LiveNodes(h) == {i \in 1..Len(h) : h[i].k = "node" /\ h[i].st = "live"}

\* every node in S is alive, was never released and hangs in no tree
Detached(h, S) ==
  \A n \in S : Live(h, n) /\ h[n].rel = 0 /\ h[n].parent = NULL

\* C10: when a single-entity serialize returns, with the text produced or not,
\* the entity's nested node is attached to no tree, is alive and was never
\* released, and nothing of the output tree is left: the only live nodes are
\* those below the nested nodes of the caller's entities.
C10_OwnershipRestored ==
  /\ last.op = "request_serialize"
       => /\ Detached(mach.h, RequestNested(req))
          /\ LiveNodes(mach.h) = Subtree(mach.h, RequestNested(req))
          /\ last.eff.kept = 0 /\ last.eff.lost = 0 /\ last.eff.twice = 0
  /\ last.op = "response_serialize"
       => /\ Detached(mach.h, ResponseNested(resp))
          /\ LiveNodes(mach.h) = Subtree(mach.h, ResponseNested(resp))
          /\ last.eff.kept = 0 /\ last.eff.lost = 0 /\ last.eff.twice = 0

\* a response whose error carries data was serialized into a buffer too small
C10_FailedTextStep ==
  /\ last.op = "response_serialize" /\ last.arg = <<TRUE, SmallBufLen>>
  /\ last.err = JESEN_ERR_NO_SPACE
  /\ resp.error.data # NULL
  /\ last.eff.made = 0 /\ Detached(mach.h, ResponseNested(resp))

\* ------------------------------------------------------------------------
\* Properties of texts from a peer
\* ------------------------------------------------------------------------
Has(v, key) == \E i \in 1..Len(v.kids) : v.kids[i][1] = key

Field(v, key) == v.kids[CHOOSE i \in 1..Len(v.kids) : v.kids[i][1] = key][2]

\* what materializing element i of the text alone as a request or a response
\* returns
ElementErr(w, i, requests, ub) ==
  IF requests
  THEN jesenrpc_request_parse(Machine(<<>>, NoFault), w.kids[i][2], ub).err
  ELSE jesenrpc_response_parse(Machine(<<>>, NoFault), w.kids[i][2], ub).err

FirstBad(w, requests, ub) ==
  LET bad == {i \in 1..Len(w.kids) : ElementErr(w, i, requests, ub) # JESENRPC_ERR_NONE}
  IN IF bad = {} THEN 0 ELSE CHOOSE i \in bad : \A j \in bad : i <= j

BatchAtomic(requests, b) ==
  \E ub \in UBChoices :
    LET i == FirstBad(wire, requests, ub)
    IN IF i = 0
       THEN last.err = JESENRPC_ERR_NONE /\ b.count = Len(wire.kids)
       ELSE /\ last.err = ElementErr(wire, i, requests, ub)
            /\ b = EmptyBatch
            /\ last.eff.made >= i - 1
            /\ last.eff.kept = 0 /\ last.eff.twice = 0
            /\ mach.h = <<>>

\* C6: when a batch parse meets an element that does not materialize, it returns
\* that element's error, the items made for the elements before it and the item
\* array are all released, each once, and the batch is left with no items and
\* count 0.
C6_BatchParseAtomic ==
  /\ (last.op = "request_batch_parse" /\ wire.t = "array")
       => BatchAtomic(TRUE, request_batch)
  /\ (last.op = "response_batch_parse" /\ wire.t = "array")
       => BatchAtomic(FALSE, response_batch)

\* a request batch failed at its third element, after two requests were made
C6_FailedAtThird ==
  /\ last.op = "request_batch_parse" /\ wire.t = "array" /\ Len(wire.kids) = 3
  /\ FirstBad(wire, TRUE, "x86") = 3
  /\ last.err = JESENRPC_ERR_VALIDATION
  /\ last.eff.made >= 2 /\ last.eff.kept = 0 /\ last.eff.twice = 0
  /\ request_batch = EmptyBatch

Validation == "Validation"

\* the kind of an object by its keys
ObjectKind(v, in_batch) ==
  IF v.t # "object" THEN Validation
  ELSE IF Has(v, "method")
  THEN IF Has(v, "result") \/ Has(v, "error") THEN Validation
       ELSE IF in_batch THEN JESENRPC_MESSAGE_REQUEST_BATCH
       ELSE JESENRPC_MESSAGE_REQUEST_SINGLE
  ELSE IF Has(v, "result") \/ Has(v, "error")
  THEN IF in_batch THEN JESENRPC_MESSAGE_RESPONSE_BATCH
       ELSE JESENRPC_MESSAGE_RESPONSE_SINGLE
  ELSE Validation

TextKind(w) ==
  IF w.t = "array"
  THEN IF Len(w.kids) = 0 THEN Validation ELSE ObjectKind(w.kids[1][2], TRUE)
  ELSE ObjectKind(w, FALSE)

Parsable(w) == w.t \notin {"bad", "none"}

\* C7: a non-object, an object with "method" and "result" or "error", and an
\* object with none of the three are Validation failures; "method" alone is a
\* request kind, "result" or "error" without "method" a response kind; the batch
\* kinds are given exactly for the first element of an array.
C7_KindClassification ==
  /\ (last.op = "message_peek_kind" /\ Parsable(wire))
       => IF TextKind(wire) = Validation
          THEN last.err = JESENRPC_ERR_VALIDATION /\ kind = JESENRPC_MESSAGE_UNKNOWN
          ELSE last.err = JESENRPC_ERR_NONE /\ kind = TextKind(wire)
  /\ (last.op = "message_parse" /\ Parsable(wire))
       => IF TextKind(wire) = Validation
          THEN last.err = JESENRPC_ERR_VALIDATION
          ELSE last.err = JESENRPC_ERR_NONE => msg.kind = TextKind(wire)

\* an array whose first element is a response was classified
C7_ResponseBatchSeen ==
  /\ last.op = "message_peek_kind" /\ last.err = JESENRPC_ERR_NONE
  /\ wire.t = "array" /\ Len(wire.kids) = 2
  /\ Has(wire.kids[1][2], "error") /\ Has(wire.kids[2][2], "method")
  /\ kind = JESENRPC_MESSAGE_RESPONSE_BATCH

\* C8: on the text "[]" message_parse and message_peek_kind fail with
\* Validation, and message_parse leaves the message with kind Unknown.
C8_EmptyArray ==
  wire = VArr(<<>>) =>
    /\ last.op = "message_parse"
         => last.err = JESENRPC_ERR_VALIDATION /\ msg = MessageUnknown
    /\ last.op = "message_peek_kind"
         => last.err = JESENRPC_ERR_VALIDATION /\ kind = JESENRPC_MESSAGE_UNKNOWN

\* message_parse was given "[]"
C8_EmptyArrayParsed ==
  /\ wire = VArr(<<>>) /\ last.op = "message_parse"
  /\ last.err = JESENRPC_ERR_VALIDATION

\* a request text whose id is a number
NumericIdRequest(w) ==
  /\ w.t = "object" /\ Len(w.kids) = 3
  /\ w.kids[1] = WVersion /\ w.kids[2] = WMethod
  /\ w.kids[3][1] = "id" /\ w.kids[3][2].t = "number"

HasFraction(n) == \E i \in 1..Len(n.frac) : n.frac[i] # 0

\* the fraction is 1e-10 or more
FractionAtLeastTolerance(n) ==
  \E i \in 1..Min(Len(n.frac), Len(Tolerance.frac)) : n.frac[i] # 0

\* C9 as stated: a numeric id with a non-zero fractional part, however small,
\* fails with Validation.
C9_AnyFractionRejected ==
  (last.op = "request_parse" /\ NumericIdRequest(wire) /\ HasFraction(Field(wire, "id").n))
    => last.err = JESENRPC_ERR_VALIDATION

\* C9: a numeric id whose fractional part is 1e-10 or more fails with
\* Validation; one whose fractional part is smaller, zero or not, is accepted
\* as the integer it has before the decimal point.
C9_FractionWithinTolerance ==
  (last.op = "request_parse" /\ NumericIdRequest(wire)
     /\ Len(Field(wire, "id").n.mag) <= DBL_MANT_DIG)
    => LET n == Field(wire, "id").n
       IN IF FractionAtLeastTolerance(n)
          THEN last.err = JESENRPC_ERR_VALIDATION /\ preq = NoRequest
          ELSE /\ last.err = JESENRPC_ERR_NONE
               /\ preq.id.kind = JESENRPC_ID_NUMBER
               /\ preq.id.number = I64(n.neg, n.mag)

\* 1.5 was refused and 1.00000000001 was taken as 1
C9_SmallFractionAccepted ==
  /\ last.op = "request_parse" /\ NumericIdRequest(wire)
  /\ Field(wire, "id").n = Dbl(FALSE, <<1>>, Frac(10, 1))
  /\ last.err = JESENRPC_ERR_NONE
  /\ preq.id.number = I64(FALSE, <<1>>)
\* ------------------------------------------------------------------------
\* Properties of calls in which a step fails
\* ------------------------------------------------------------------------
\* the call stopped at an entity of the array, in its build or its append
StoppedAtEntity(l) ==
  /\ l.err # JESENRPC_ERR_NONE
  /\ l.arg.step \in {"build", "append"}
  /\ l.arg.fault # "detach"

C12_MaterializeTransfers ==
  [][/\ (last'.op = "request_parse" /\ last'.err = JESENRPC_ERR_NONE)
          => /\ Detached(mach'.h, RequestNested(preq'))
             /\ LiveNodes(mach'.h) = Subtree(mach'.h, RequestNested(preq'))
     /\ (last'.op = "response_parse" /\ last'.err = JESENRPC_ERR_NONE)
          => /\ Detached(mach'.h, ResponseNested(presp'))
             /\ LiveNodes(mach'.h) = Subtree(mach'.h, ResponseNested(presp'))
     /\ (last'.op = "request_destroy" /\ last'.err = JESENRPC_ERR_NONE
           /\ last'.arg = "parsed" /\ last.op = "request_parse")
          => /\ last'.eff.twice = 0
             /\ last'.eff.lost = Cardinality(RequestOwned(mach.h, preq))
             /\ LiveNodes(mach'.h) = {}
     /\ (last'.op = "response_destroy" /\ last'.err = JESENRPC_ERR_NONE
           /\ last'.arg = "parsed" /\ last.op = "response_parse")
          => /\ last'.eff.twice = 0
             /\ last'.eff.lost = Cardinality(ResponseOwned(mach.h, presp))
             /\ LiveNodes(mach'.h) = {}]_vars

\* a request with params was parsed from a text
C12_ParsedWithParams ==
  /\ last.op = "request_parse" /\ last.err = JESENRPC_ERR_NONE
  /\ preq.params # NULL /\ Live(mach.h, preq.params)
  /\ wire # NoText

\* an "id" field and exactly one of "result" and "error"
ResponseShape(v) == Has(v, "id") /\ (Has(v, "result") # Has(v, "error"))

\* the identifier is present and exactly one of result and error is set
ShapedResponse(r) ==
  /\ r.id.kind # JESENRPC_ID_NONE
  /\ (r.result # NULL) # (r.error.self # NULL)

C14_MessageParseFailure ==
  (last.op = "message_parse" /\ last.err # JESENRPC_ERR_NONE /\ wire # NoText)
    => /\ msg = MessageUnknown
       /\ last.eff.kept = 0 /\ last.eff.lost = 0 /\ last.eff.twice = 0
       /\ mach.h = <<>>

\* a batch whose second element is a response failed after its first element
\* was made a request
C14_MixedBatchFailed ==
  /\ last.op = "message_parse" /\ last.err # JESENRPC_ERR_NONE
  /\ wire = VArr(<<FaultRequest, FaultResult>>)
  /\ last.arg = "none" /\ last.eff.made >= 1
  /\ msg = MessageUnknown /\ mach.h = <<>>

\* ------------------------------------------------------------------------
\* Properties of messages
\* ------------------------------------------------------------------------
RECURSIVE RequestsOwned(_, _, _)
RequestsOwned(h, list, i) ==
  IF i > Len(list) THEN {}
  ELSE RequestOwned(h, list[i]) \cup RequestsOwned(h, list, i + 1)

RECURSIVE ResponsesOwned(_, _, _)
ResponsesOwned(h, list, i) ==
  IF i > Len(list) THEN {}
  ELSE ResponseOwned(h, list[i]) \cup ResponsesOwned(h, list, i + 1)

\* what the Message's variant owns
MessageOwned(h, g) ==
  CASE g.kind = JESENRPC_MESSAGE_REQUEST_SINGLE -> RequestOwned(h, g.request)
    [] g.kind = JESENRPC_MESSAGE_RESPONSE_SINGLE -> ResponseOwned(h, g.response)
    [] g.kind = JESENRPC_MESSAGE_REQUEST_BATCH ->
         ({g.request_batch.items} \ {NULL}) \cup RequestsOwned(h, g.request_batch.list, 1)
    [] g.kind = JESENRPC_MESSAGE_RESPONSE_BATCH ->
         ({g.response_batch.items} \ {NULL})
           \cup ResponsesOwned(h, g.response_batch.list, 1)
    [] OTHER -> {}

\* C15: jesenrpc_message_destroy on a Message of a kind other than Unknown
\* succeeds, releases all that the stored entity owns exactly once and leaves
\* the Message with kind Unknown; on a Message of kind Unknown it returns
\* InvalidArgs and changes nothing.  A second call in a row therefore returns
\* InvalidArgs and releases nothing.
C15_MessageDestroyLifecycle ==
  [][last'.op = "message_destroy"
       => /\ msg.kind # JESENRPC_MESSAGE_UNKNOWN
               => /\ last'.err = JESENRPC_ERR_NONE
                  /\ msg' = MessageUnknown
                  /\ MessageOwned(mach.h, msg) # {}
                  /\ last'.eff.lost = Cardinality(MessageOwned(mach.h, msg))
                  /\ last'.eff.twice = 0
                  /\ mach'.h = <<>>
          /\ msg.kind = JESENRPC_MESSAGE_UNKNOWN
               => /\ last'.err = JESENRPC_ERR_INVALID_ARGS
                  /\ msg' = msg /\ mach' = mach
                  /\ last'.eff.lost = 0
          /\ (last.op = "message_destroy" /\ last.err = JESENRPC_ERR_NONE)
               => /\ last'.err = JESENRPC_ERR_INVALID_ARGS
                  /\ last'.arg = "again"
                  /\ last'.eff.lost = 0 /\ mach' = mach]_vars

\* the Message was destroyed with success and then destroyed again
C15_DestroyedTwice ==
  /\ last.op = "message_destroy" /\ last.err = JESENRPC_ERR_INVALID_ARGS
  /\ last.arg = "again"
  /\ msg = MessageUnknown

\* ------------------------------------------------------------------------
\* Properties of failed parses
\* ------------------------------------------------------------------------
\* C16: when jesenrpc_request_parse or jesenrpc_response_parse of a text
\* fails, be it in the tree library, in a validation or in an allocation at
\* any point of the call, nothing the call acquired is alive, nothing was
\* released twice, and the caller's pointer holds no entity.
C16_TransactionalParse ==
  /\ (last.op = "request_parse" /\ last.err # JESENRPC_ERR_NONE /\ wire # NoText)
       => /\ preq = NoRequest
          /\ last.eff.kept = 0 /\ last.eff.lost = 0 /\ last.eff.twice = 0
          /\ mach.h = <<>>
  /\ (last.op = "response_parse" /\ last.err # JESENRPC_ERR_NONE /\ wire # NoText)
       => /\ presp = NoResponse
          /\ last.eff.kept = 0 /\ last.eff.lost = 0 /\ last.eff.twice = 0
          /\ mach.h = <<>>

\* an allocation failed after the request was allocated and its params taken
\* from the tree
C16_AllocFailedLate ==
  /\ last.op = "request_parse" /\ last.err = JESENRPC_ERR_ALLOC
  /\ last.arg = "step" /\ last.eff.made = 1
  /\ wire = FaultRequest
  /\ preq = NoRequest /\ mach.h = <<>>

\* the "jsonrpc" field is the string "2.0"
VersionOk(v) ==
  /\ Has(v, "jsonrpc") /\ Field(v, "jsonrpc").t = "string"
  /\ Field(v, "jsonrpc").s = JESENRPC_JSONRPC_VERSION

\* the "jsonrpc" field is missing or is another string
VersionBad(v) ==
  \/ ~Has(v, "jsonrpc")
  \/ Field(v, "jsonrpc").t = "string" /\ Field(v, "jsonrpc").s # JESENRPC_JSONRPC_VERSION

\* C17: the parse of a request or response object whose "jsonrpc" field is
\* missing or is a string other than "2.0", and the parse of a request object
\* without a "method" field, fail with Validation.
C17_RequiredFieldsValidation ==
  /\ (last.op \in {"request_parse", "response_parse"} /\ wire.t = "object"
        /\ VersionBad(wire))
       => last.err = JESENRPC_ERR_VALIDATION
  /\ (last.op = "request_parse" /\ wire.t = "object" /\ VersionOk(wire)
        /\ ~Has(wire, "method"))
       => last.err = JESENRPC_ERR_VALIDATION

\* a request object without "jsonrpc" was refused
C17_MissingVersionRefused ==
  /\ last.op = "request_parse" /\ wire.t = "object"
  /\ ~Has(wire, "jsonrpc") /\ Has(wire, "method")
  /\ last.err # JESENRPC_ERR_NONE

\* the response carries no Error Object or one that passes validate
ValidError(h, r) ==
  r.error.self # NULL => jesenrpc_error_object_validate(h, r.error) = JESENRPC_ERR_NONE

\* the "error" field of the text is an object with an empty "message" string
EmptyMessage(v) ==
  /\ v.t = "object" /\ Has(v, "error") /\ Field(v, "error").t = "object"
  /\ Has(Field(v, "error"), "message")
  /\ Field(Field(v, "error"), "message").t = "string"
  /\ Field(Field(v, "error"), "message").s.len = 0

\* C18: the parse of a response whose "error" object has an empty "message"
\* string fails, and every Error Object a successful parse returned, single,
\* in a batch or in a Message, passes jesenrpc_error_object_validate.
C18_ParsedErrorValid ==
  /\ (last.op = "response_parse" /\ EmptyMessage(wire)) => last.err # JESENRPC_ERR_NONE
  /\ ValidError(mach.h, presp)
  /\ ValidError(mach.h, msg.response)
  /\ \A j \in 1..Len(response_batch.list) : ValidError(mach.h, response_batch.list[j])
  /\ \A j \in 1..Len(msg.response_batch.list) :
       ValidError(mach.h, msg.response_batch.list[j])

\* a response whose "error" object has an empty "message" was parsed
C18_EmptyMessageParsed ==
  /\ last.op = "response_parse" /\ EmptyMessage(wire)
  /\ Has(wire, "id") /\ ~Has(wire, "result")

\* ------------------------------------------------------------------------
\* Properties of set_params
\* ------------------------------------------------------------------------
\* the step leaves the request's version, method name and identifier as they are
OtherFieldsKept ==
  /\ req'.jsonrpc = req.jsonrpc
  /\ mach'.h[req'.method_name].s = mach.h[req.method_name].s
  /\ req'.id.kind = req.id.kind /\ req'.id.number = req.id.number
  /\ req'.id.len = req.id.len
  /\ (req'.id.data = NULL) = (req.id.data = NULL)
  /\ req.id.data # NULL => mach'.h[req'.id.data].s = mach.h[req.id.data].s

\* C19: jesenrpc_request_set_params given a node of the caller that is neither
\* array nor object returns Validation and leaves the Request and its previous
\* params as they were, alive and attached to no tree, and the node with the
\* caller, who releases it once; given an array or object node of the caller,
\* or none, it releases the previous params exactly once, and the Request then
\* holds the node given, the only tree that is alive.
C19_SetParams ==
  [][(last'.op = "request_set_params" /\ req # NoRequest)
       => /\ last'.err \in {JESENRPC_ERR_NONE, JESENRPC_ERR_VALIDATION}
          /\ last'.err = JESENRPC_ERR_VALIDATION
               => /\ req' = req /\ mach' = mach
                  /\ Detached(mach'.h, RequestNested(req'))
                  /\ last'.eff.lost = 0 /\ last'.eff.twice = 0
          /\ last'.err = JESENRPC_ERR_NONE
               => /\ last'.eff.lost = Cardinality(Subtree(mach.h, RequestNested(req)))
                  /\ last'.eff.twice = 0
                  /\ Detached(mach'.h, RequestNested(req'))
                  /\ LiveNodes(mach'.h) = Subtree(mach'.h, RequestNested(req'))
                  /\ OtherFieldsKept]_vars

\* a node that is a string was refused by a request that holds params
C19_NodeRefused ==
  /\ last.op = "request_set_params" /\ last.err = JESENRPC_ERR_VALIDATION
  /\ req.params # NULL /\ Live(mach.h, req.params)
  /\ last.eff.made = 0 /\ last.eff.kept = 0

\* ------------------------------------------------------------------------
\* Properties of error codes
\* ------------------------------------------------------------------------
\* what failed in the last call, for the calls that tell
Failed(l) ==
  IF l.op \in {"request_batch_serialize", "response_batch_serialize"}
  THEN l.arg.fault
  ELSE IF l.op \in {"request_parse", "response_parse", "message_parse",
                    "request_batch_parse", "response_batch_parse",
                    "request_serialize", "response_serialize"}
  THEN l.arg
  ELSE "none"

\* C20: a call in which an allocation or a tree-library call failed, a detach
\* made after the text was produced included, returns the code of that step:
\* Alloc for an allocation of the library, the tree library's code otherwise.
C20_NoSwallowedErrors ==
  Failed(last) \in {"step", "detach"}
    => last.err \in {JESENRPC_ERR_ALLOC, JESEN_ERR_FAILED}

\* the same for every failing step but the detach calls of the serialize calls
ErrorsReturnedButAfterText ==
  (\/ Failed(last) = "step"
   \/ Failed(last) = "detach"
        /\ last.op \in {"request_parse", "response_parse", "message_parse",
                        "request_batch_parse", "response_batch_parse"})
    => last.err \in {JESENRPC_ERR_ALLOC, JESEN_ERR_FAILED}

\* the detach after the text of a request failed and the call returned success
C20_DetachFailureSwallowed ==
  /\ last.op = "request_serialize" /\ last.arg = "detach"
  /\ last.err = JESENRPC_ERR_NONE
  /\ preq.params # NULL /\ ~Live(mach.h, preq.params)

\* ------------------------------------------------------------------------
\* C21: after jesenrpc_request_set_id, jesenrpc_request_create_with_id or
\* jesenrpc_response_create_with_id returns with a String source identifier,
\* with success or with an allocation failure, the caller's identifier still
\* solely owns its string buffer: the entity's identifier does not point to
\* it and it has not been released.
C21_CloneNeverShares ==
  (/\ last.op \in {"request_set_id", "request_create_with_id",
                   "response_create_with_id"}
   /\ last.arg.string
   /\ last.err \in {JESENRPC_ERR_NONE, JESENRPC_ERR_ALLOC})
    => ~last.arg.shared /\ ~last.arg.released

\* a failed jesenrpc_request_set_id left the request's identifier pointing to
\* the caller's buffer, which the caller has released since
C21_RequestHoldsCallersBuffer ==
  /\ last.op = "request_set_id" /\ last.err = JESENRPC_ERR_ALLOC
  /\ last.arg.shared
  /\ req.id.kind = JESENRPC_ID_STRING /\ req.id.data # NULL
  /\ ~Live(mach.h, req.id.data)

\* the "id" field a serialized identifier of that kind has in the text
IdFieldAgrees(id, text) ==
  /\ id.kind = JESENRPC_ID_NONE <=> ~Has(text, "id")
  /\ id.kind = JESENRPC_ID_NULL <=> (Has(text, "id") /\ Field(text, "id") = VNull)

\* the response's error message, if any, is within what the parser reads
MessageReadable(h, r) ==
  r.error.self = NULL \/ h[r.error.message].s.len <= ErrMessageLimit

C23_EmptyArrayPerKind ==
  [][/\ (wire' = VArr(<<>>) /\ last'.op = "request_batch_parse")
          => (/\ last'.err = JESENRPC_ERR_NONE
              /\ request_batch'.count = 0 /\ request_batch'.items = NULL
              /\ last'.eff.kept = 0 /\ last'.eff.lost = 0)
     /\ (wire' = VArr(<<>>) /\ last'.op = "response_batch_parse")
          => (/\ last'.err = JESENRPC_ERR_NONE
              /\ response_batch'.count = 0 /\ response_batch'.items = NULL
              /\ last'.eff.kept = 0 /\ last'.eff.lost = 0)
     /\ (/\ wire = VArr(<<>>)
         /\ \/ last.op = "request_batch_parse" /\ last'.op = "request_batch_destroy"
            \/ last.op = "response_batch_parse" /\ last'.op = "response_batch_destroy")
          => (/\ last'.err = JESENRPC_ERR_NONE
              /\ last'.eff.lost = 0 /\ last'.eff.twice = 0
              /\ mach' = mach
              /\ request_batch' = EmptyBatch /\ response_batch' = EmptyBatch)]_vars

\* jesenrpc_request_batch_parse was given "[]" and returned an empty batch
C23_EmptyBatchParsed ==
  /\ wire = VArr(<<>>) /\ last.op = "request_batch_parse"
  /\ last.err = JESENRPC_ERR_NONE
  /\ request_batch.count = 0 /\ request_batch.items = NULL

\* the variant of the message that its kind names is the one populated
Populated(g) ==
  /\ (g.request # NoRequest) = (g.kind = JESENRPC_MESSAGE_REQUEST_SINGLE)
  /\ (g.response # NoResponse) = (g.kind = JESENRPC_MESSAGE_RESPONSE_SINGLE)
  /\ (g.request_batch # EmptyBatch) = (g.kind = JESENRPC_MESSAGE_REQUEST_BATCH)
  /\ (g.response_batch # EmptyBatch) = (g.kind = JESENRPC_MESSAGE_RESPONSE_BATCH)
  /\ g.kind = JESENRPC_MESSAGE_REQUEST_SINGLE => g.request.self # NULL
  /\ g.kind = JESENRPC_MESSAGE_RESPONSE_SINGLE => g.response.self # NULL
  /\ g.kind = JESENRPC_MESSAGE_REQUEST_BATCH
       => (g.request_batch.count >= 1 /\ g.request_batch.items # NULL
           /\ Len(g.request_batch.list) = g.request_batch.count)
  /\ g.kind = JESENRPC_MESSAGE_RESPONSE_BATCH
       => (g.response_batch.count >= 1 /\ g.response_batch.items # NULL
           /\ Len(g.response_batch.list) = g.response_batch.count)

\* jesenrpc_message_peek_kind on the text, with what it leaves on the heap
Peeked(m, w) ==
  LET p == jesenrpc_message_peek_kind(m, w, JESENRPC_MESSAGE_UNKNOWN)
  IN [err |-> p.err, kind |-> p.kind, eff |-> Effect(m.h, p.m.h)]

\* C24: on every text on which jesenrpc_message_parse succeeds,
\* jesenrpc_message_peek_kind succeeds and reports the kind stored in the
\* Message, and the variant populated in the Message is the one of that kind
\* (a batch has count >= 1); peek_kind creates no entity and leaves nothing
\* allocated.
C24_PeekAgreesWithParse ==
  /\ (last.op = "message_parse" /\ last.err = JESENRPC_ERR_NONE)
       => (/\ msg.kind # JESENRPC_MESSAGE_UNKNOWN
           /\ Peeked(mach, wire).err = JESENRPC_ERR_NONE
           /\ Peeked(mach, wire).kind = msg.kind
           /\ Peeked(mach, wire).eff.made = 0 /\ Peeked(mach, wire).eff.kept = 0
           /\ Peeked(mach, wire).eff.lost = 0
           /\ kind \in {JESENRPC_MESSAGE_UNKNOWN, msg.kind}
           /\ Populated(msg))
  /\ last.op = "message_peek_kind"
       => (last.eff.made = 0 /\ last.eff.kept = 0 /\ last.eff.lost = 0 /\ Idle)

\* a text was peeked as a request batch and then parsed into one
C24_PeekedThenParsedBatch ==
  /\ last.op = "message_parse" /\ last.err = JESENRPC_ERR_NONE
  /\ kind = JESENRPC_MESSAGE_REQUEST_BATCH
  /\ msg.kind = JESENRPC_MESSAGE_REQUEST_BATCH
  /\ msg.request_batch.count >= 2

\* the caller's array that holds just this entity
ArrayOfOne(r) == Batch(r.self, 1, <<r>>)

C26_AssignFailureProtects ==
  /\ (last.op = "request_serialize" /\ last.arg = "linked")
       => (/\ last.err # JESENRPC_ERR_NONE
           /\ Detached(mach.h, RequestNested(preq)))
  /\ (last.op = "response_serialize" /\ last.arg = "linked")
       => (/\ last.err # JESENRPC_ERR_NONE
           /\ Detached(mach.h, ResponseNested(presp)))

\* the same for the builder of a response with a result, which detaches
ResultAssignFailureProtects ==
  (last.op = "response_serialize" /\ last.arg = "linked" /\ presp.result # NULL)
    => (/\ last.err # JESENRPC_ERR_NONE
        /\ Detached(mach.h, {presp.result}))

\* the assign of params failed with the node linked and the request is left
\* with params that were released with the output tree
C26_ParamsDestroyedWithTree ==
  /\ last.op = "request_serialize" /\ last.arg = "linked"
  /\ last.err = JESEN_ERR_FAILED
  /\ preq.params # NULL /\ ~Live(mach.h, preq.params)

\* ------------------------------------------------------------------------
\* the wire number is an integer that a double holds exactly
ExactInteger(n) == ~HasFraction(n) /\ RoundMag(n.mag) = n.mag

\* C27: every Number id produced by parsing lies in [-2^63, 2^63 - 1] and
\* equals the wire value; a wire value greater than 2^63 - 1, 2^63 included,
\* or less than -2^63 fails with Validation, whatever the build makes of a
\* conversion of such a value to int64_t.
C27_NumericIdRange ==
  (last.op = "request_parse" /\ NumericIdRequest(wire))
    => LET n == Field(wire, "id").n
       IN /\ ~FitsInt64(n) => (last.err = JESENRPC_ERR_VALIDATION /\ preq = NoRequest)
          /\ last.err = JESENRPC_ERR_NONE
               => (/\ preq.id.kind = JESENRPC_ID_NUMBER
                   /\ I64LE(INT64_MIN, preq.id.number)
                   /\ I64LE(preq.id.number, INT64_MAX)
                   /\ ExactInteger(n) => preq.id.number = I64(n.neg, n.mag))

\* the id 2^63 was accepted and became 2^63 - 1
C27_TwoTo63Accepted ==
  /\ last.op = "request_parse" /\ NumericIdRequest(wire)
  /\ Field(wire, "id").n = Dbl(FALSE, Pow2(Int64Bits), <<>>)
  /\ last.err = JESENRPC_ERR_NONE
  /\ preq.id.number = INT64_MAX

\* ------------------------------------------------------------------------
\* every request of the list passes jesenrpc_request_validate
AllValid(h, list) ==
  \A i \in 1..Len(list) : jesenrpc_request_validate(h, list[i]) = JESENRPC_ERR_NONE

\* C28: every Request returned by a successful jesenrpc_request_parse, as an
\* item of a parsed request batch or through jesenrpc_message_parse passes
\* jesenrpc_request_validate; an object with "method":"" or "id":"" is not
\* returned as a Request.
C28_ParsedRequestsValid ==
  /\ preq # NoRequest
       => jesenrpc_request_validate(mach.h, preq) = JESENRPC_ERR_NONE
  /\ AllValid(mach.h, request_batch.list)
  /\ msg.request # NoRequest
       => jesenrpc_request_validate(mach.h, msg.request) = JESENRPC_ERR_NONE
  /\ AllValid(mach.h, msg.request_batch.list)

\* the object with "id":"" was returned as a Request whose String id is empty
C28_EmptyIdParsed ==
  /\ last.op = "request_parse" /\ last.err = JESENRPC_ERR_NONE
  /\ Has(wire, "id") /\ Field(wire, "id") = VStr(Str(0, ""))
  /\ preq.id.kind = JESENRPC_ID_STRING /\ preq.id.len = 0
  /\ jesenrpc_request_validate(mach.h, preq) = JESENRPC_ERR_VALIDATION

\* ------------------------------------------------------------------------
\* C29: jesenrpc_request_set_params given the very node the Request holds as
\* params leaves that node alive, never released and owned by the Request, as
\* jesenrpc_error_object_set_data does for the data an Error Object holds;
\* afterwards the Request never refers to a released node.
C29_SameParamsSafe ==
  /\ (last.op = "request_set_params" /\ last.arg = "same")
       => (/\ last.err = JESENRPC_ERR_NONE
           /\ preq.params # NULL
           /\ Detached(mach.h, RequestNested(preq))
           /\ last.eff.lost = 0)
  /\ preq.params # NULL => Live(mach.h, preq.params)
  /\ presp.error.data # NULL
       => LET s == jesenrpc_error_object_set_data(mach, presp.error, presp.error.data)
          IN s.err = JESENRPC_ERR_NONE /\ s.m = mach /\ s.error = presp.error

\* the request was given its own params and now holds a released node
C29_HoldsReleasedParams ==
  /\ last.op = "request_set_params" /\ last.arg = "same"
  /\ last.err = JESENRPC_ERR_NONE
  /\ preq.params # NULL /\ ~Live(mach.h, preq.params)
  /\ last.eff.lost >= 1

\* ------------------------------------------------------------------------
\* the caller's array of the first n of the entities in list
ArrayOf(items, n, list) == Batch(items, n, SubSeq(list, 1, n))

\* the text a successful batch serialize of n requests gives is parsed by
\* jesenrpc_message_parse as a request batch of n items in the array's order
RequestsParseBack(n) ==
  (req # NoRequest /\ jesenrpc_request_validate(mach.h, req) = JESENRPC_ERR_NONE)
    => LET s == jesenrpc_request_batch_serialize(
                  mach, ArrayOf(req.self, n, <<req>>), n, TRUE, LargeBufLen)
       IN s.err = JESENRPC_ERR_NONE
            => \A ub \in UBChoices :
                 LET p == jesenrpc_message_parse(s.m, s.text, ub)
                 IN /\ p.err = JESENRPC_ERR_NONE
                    /\ p.msg.kind = JESENRPC_MESSAGE_REQUEST_BATCH
                    /\ p.msg.request_batch.count = n
                    /\ \A i \in 1..n :
                         p.m.h[p.msg.request_batch.list[i].method_name].s
                           = mach.h[req.method_name].s

ResponsesParseBack(n) ==
  (resp # NoResponse /\ jesenrpc_response_validate(mach.h, resp) = JESENRPC_ERR_NONE)
    => LET s == jesenrpc_response_batch_serialize(
                  mach, ArrayOf(resp.self, n, <<resp>>), n, TRUE, LargeBufLen)
       IN s.err = JESENRPC_ERR_NONE
            => \A ub \in UBChoices :
                 LET p == jesenrpc_message_parse(s.m, s.text, ub)
                 IN /\ p.err = JESENRPC_ERR_NONE
                    /\ p.msg.kind = JESENRPC_MESSAGE_RESPONSE_BATCH
                    /\ p.msg.response_batch.count = n
                    /\ \A i \in 1..n :
                         (p.msg.response_batch.list[i].result = NULL)
                           = (resp.result = NULL)

\* C30: for every N >= 0 and every array of N valid Requests (or Responses),
\* whenever the batch serialize call succeeds, jesenrpc_message_parse of the
\* text it produced succeeds with kind RequestBatch (or ResponseBatch) and
\* count N, the items in the order of the array.
C30_BatchTextParsesBack ==
  \A n \in 0..1 : RequestsParseBack(n) /\ ResponsesParseBack(n)

\* an array of one valid request was written as a batch text that
\* jesenrpc_message_parse refuses
C30_BatchOfOneRefused ==
  /\ req # NoRequest
  /\ jesenrpc_request_validate(mach.h, req) = JESENRPC_ERR_NONE
  /\ LET s == jesenrpc_request_batch_serialize(
                mach, ArrayOf(req.self, 1, <<req>>), 1, TRUE, LargeBufLen)
     IN /\ s.err = JESENRPC_ERR_NONE
        /\ \E ub \in UBChoices :
             jesenrpc_message_parse(s.m, s.text, ub).err # JESENRPC_ERR_NONE

\* an array of no request was written as the text of an empty array, which
\* jesenrpc_message_parse refuses
EmptyBatchTextRefused ==
  /\ req # NoRequest
  /\ LET s == jesenrpc_request_batch_serialize(
                mach, ArrayOf(req.self, 0, <<req>>), 0, TRUE, LargeBufLen)
     IN /\ s.err = JESENRPC_ERR_NONE
        /\ s.text = VArr(<<>>)
        /\ \A ub \in UBChoices :
             jesenrpc_message_parse(s.m, s.text, ub).err = JESENRPC_ERR_VALIDATION

\* batches of one entity or more, leaving the empty array aside
NonEmptyParsesBack == RequestsParseBack(1) /\ ResponsesParseBack(1)

====
